---- MODULE Spec2Model ----
(***************************************************************************)
(* Model of cognitest/core/bug_classifier.py (BugClassifier),               *)
(* cognitest/core/log_interpreter.py (LogInterpreter), the timers of       *)
(* cognitest/utils/metrics.py (MetricsCollector), the register handler of  *)
(* demo_app/user_service/main.py and the handlers of                       *)
(* demo_app/order_service/main.py and demo_app/payment_service/main.py.    *)
(*                                                                         *)
(* Text is a sequence of one-character strings.  A model response is a     *)
(* sequence of tokens; every token stands for a run of characters and      *)
(* flattens into chunks: a "{" chunk, a "}" chunk, or a brace-free chunk.  *)
(* Numbers are kept in hundredths (9 is 900, 7.5 is 750, 5.0 is 500), so   *)
(* that the weights 0.5/0.3/0.2 stay in integer arithmetic.                *)
(***************************************************************************)
EXTENDS Integers, Sequences, FiniteSets, TLC

VARIABLES history, calls, last, prompts, batch, stats,
          ihistory, ilast, users, ulast,
          orders, olast, payments, plast,
          start_time, timestamps, mcalls, mlast

\* the state of the BugClassifier instances, of the LogInterpreter, of the
\* user, order and payment services and of the MetricsCollector
classifierVars == <<history, calls, last, prompts, batch, stats>>
interpreterVars == <<ihistory, ilast>>
userVars == <<users, ulast>>
orderVars == <<orders, olast>>
paymentVars == <<payments, plast>>
metricsVars == <<start_time, timestamps, mcalls, mlast>>
serviceVars == <<orderVars, paymentVars, metricsVars>>

vars == <<history, calls, last, prompts, batch, stats,
          ihistory, ilast, users, ulast,
          orders, olast, payments, plast,
          start_time, timestamps, mcalls, mlast>>

(* ------------------------------ bounds -------------------------------- *)

\* longest response, in tokens, that ParseSpec enumerates
MaxTokens == 3
\* most classify calls that complete on one instance
MaxCalls == 2
\* whole sub-scores the model supplies range over -MaxMag..MaxMag
MaxMag == 3
\* longest list classify_batch is given
MaxBatch == 2
\* most blocks of a response that IParseSpec enumerates
MaxBlocks == 3
\* most unlabelled paragraphs of a response that IParseSpec enumerates
MaxParas == 5
\* most interpret calls that complete
MaxInterps == 2
\* characters by which the longest error log exceeds LogLimit
MaxOver == 3
\* most users the user service stores
MaxUsers == 2

\* most orders the order service stores
MaxOrders == 2

\* most payments the payment service stores
MaxPayments == 2

\* most start_timer and stop_timer calls made on the MetricsCollector
MaxTimerCalls == 4

\* error_log[:500]
LogLimit == 500

(* ------------------------------- text --------------------------------- *)

Upper == <<"A","B","C","D","E","F","G","H","I","J","K","L","M",
           "N","O","P","Q","R","S","T","U","V","W","X","Y","Z">>
LowerLetters == <<"a","b","c","d","e","f","g","h","i","j","k","l","m",
                  "n","o","p","q","r","s","t","u","v","w","x","y","z">>

\* str.lower() on one character
LowerChar(c) ==
    IF \E i \in 1..Len(Upper) : Upper[i] = c
    THEN LowerLetters[CHOOSE i \in 1..Len(Upper) : Upper[i] = c]
    ELSE c

\* str.lower()
Lower(text) == [i \in 1..Len(text) |-> LowerChar(text[i])]

\* Python's  sub in text  for strings
Contains(sub, text) ==
    \E i \in 1..(Len(text) - Len(sub) + 1) :
        SubSeq(text, i, i + Len(sub) - 1) = sub

RECURSIVE Concat(_)
Concat(seqs) ==
    IF seqs = <<>> THEN <<>> ELSE Head(seqs) \o Concat(Tail(seqs))

(* ------------------------------ Severity ------------------------------ *)

Critical == <<"C","r","i","t","i","c","a","l">>
High == <<"H","i","g","h">>
Medium == <<"M","e","d","i","u","m">>
Low == <<"L","o","w">>

\* [s.value for s in Severity]
ValidSeverities == {Critical, High, Medium, Low}

(* ------------------------------ values -------------------------------- *)

\* a decoded JSON value / Python object; "absent" marks a key not in the dict
Absent == [t |-> "absent", n |-> 0, s |-> <<>>]
Num(x) == [t |-> "num", n |-> x, s |-> <<>>]
Str(x) == [t |-> "str", n |-> 0, s |-> x]
Null == [t |-> "null", n |-> 0, s |-> <<>>]
List == [t |-> "list", n |-> 0, s |-> <<>>]
NaN == [t |-> "nan", n |-> 0, s |-> <<>>]

ScoreKeys == {"impact_score", "frequency_score", "recovery_score"}
Keys == {"severity", "weighted_score", "reasoning"} \cup ScoreKeys

EmptyDict == [k \in Keys |-> Absent]

\* dict.get(key, default)
Get(d, key, default) == IF d[key].t = "absent" THEN default ELSE d[key]

\* "Parsed from unstructured response"
ParsedReasoning ==
    <<"P","a","r","s","e","d"," ","f","r","o","m"," ",
      "u","n","s","t","r","u","c","t","u","r","e","d",
      " ","r","e","s","p","o","n","s","e">>
\* "Default classification due to parsing error"
DefaultReasoning ==
    <<"D","e","f","a","u","l","t"," ","c","l","a","s",
      "s","i","f","i","c","a","t","i","o","n"," ","d",
      "u","e"," ","t","o"," ","p","a","r","s","i","n",
      "g"," ","e","r","r","o","r">>

(* ------------------------------ responses ----------------------------- *)

\* A chunk is a run of characters of the response: the character "{", the
\* character "}", or a brace-free run.  Brace-free runs are
\*   word     free text (w holds its characters),
\*   ws       JSON-insignificant white space,
\*   mem      the text of a well-formed JSON member list  "key": value, ...
\*            (m holds the decoded members),
\*   memopen  a member list that ends inside an open string value
\*            "reasoning": "see   (m holds the members before it),
\*   strclose the rest of that string value with its closing quote.
Chunk(k, w, m) == [k |-> k, w |-> w, m |-> m]
LB == Chunk("lb", <<"{">>, EmptyDict)
RB == Chunk("rb", <<"}">>, EmptyDict)
WS == Chunk("ws", <<" ">>, EmptyDict)
Word(w) == Chunk("word", w, EmptyDict)
Mem(m) == Chunk("mem", <<>>, m)
MemOpen(m) == Chunk("memopen", <<>>, m)
StrClose == Chunk("strclose", <<"\"">>, EmptyDict)
\* tokens that stand for several chunks
Obj(m) == Chunk("obj", <<>>, m)
ObjBraceStr(m, w) == Chunk("objbrace", w, m)

\* the chunks a token stands for
Flatten(tok) ==
    CASE tok.k = "obj" -> <<LB, Mem(tok.m), RB>>
      [] tok.k = "objbrace" ->
            <<LB, MemOpen(tok.m), LB, Word(tok.w), RB, StrClose, RB>>
      [] OTHER -> <<tok>>

Chunks(response) ==
    Concat([i \in 1..Len(response) |-> Flatten(response[i])])

\* the letters of a JSON value as written in the response; digits, quotes
\* and punctuation are written "_" (no keyword contains them)
ValChars(v) == IF v.t = "str" THEN <<"_">> \o v.s \o <<"_">> ELSE <<"_">>

\* the characters of a member list; the six key names contain none of the
\* words critical, high, low and are written "_"
MemChars(m) ==
    Concat([i \in 1..6 |->
        LET key == <<"severity", "impact_score", "frequency_score",
                     "recovery_score", "weighted_score", "reasoning">>[i]
        IN IF m[key].t = "absent" THEN <<>> ELSE <<"_">> \o ValChars(m[key])])

ChunkChars(c) ==
    CASE c.k \in {"mem", "memopen"} -> MemChars(c.m)
      [] OTHER -> c.w

\* the response as a string
Text(response) ==
    LET cs == Chunks(response)
    IN Concat([i \in 1..Len(cs) |-> ChunkChars(cs[i])])

(* ------------------------- _parse_classification ---------------------- *)

IsBrace(c) == c.k \in {"lb", "rb"}

\* positions (i, j) of the chunks such that cs[i] is "{", cs[j] is "}" and
\* no brace lies between: the matches of  \{[^{}]*\}  (with re.DOTALL the
\* class [^{}] takes every other character, newlines too)
BraceMatches(cs) ==
    {p \in (1..Len(cs)) \X (1..Len(cs)) :
        /\ p[1] < p[2]
        /\ cs[p[1]].k = "lb"
        /\ cs[p[2]].k = "rb"
        /\ \A x \in (p[1] + 1)..(p[2] - 1) : ~IsBrace(cs[x])}

\* re.search: the leftmost match, as the chunks between its braces;
\* found is FALSE when the pattern matches nowhere
ReSearch(cs) ==
    LET ms == BraceMatches(cs)
    IN IF ms = {}
       THEN [found |-> FALSE, inner |-> <<>>]
       ELSE LET p == CHOOSE q \in ms : \A r \in ms : q[1] <= r[1]
            IN [found |-> TRUE, inner |-> SubSeq(cs, p[1] + 1, p[2] - 1)]

\* json.loads on "{" inner "}": white space is skipped; nothing between the
\* braces decodes to the empty dict, one member list to its members, and
\* anything else (free text, an unterminated string, a stray quote, two
\* member lists with no comma) raises JSONDecodeError
JsonLoads(inner) ==
    LET body == SelectSeq(inner, LAMBDA c : c.k # "ws")
    IN CASE body = <<>> -> [ok |-> TRUE, d |-> EmptyDict]
         [] Len(body) = 1 /\ body[1].k = "mem" -> [ok |-> TRUE, d |-> body[1].m]
         [] OTHER -> [ok |-> FALSE, d |-> EmptyDict]

\* "critical" / "high" / "low"
KwCritical == Lower(Critical)
KwHigh == Lower(High)
KwLow == Lower(Low)

DefaultScore == 500
MinScore == 0
MaxScore == 1000


\* _fallback_parse without response.lower()
FallbackParseCaseSensitive(text) ==
    LET severity ==
            IF Contains(KwCritical, text) THEN Critical
            ELSE IF Contains(KwHigh, text) THEN High
            ELSE IF Contains(KwLow, text) THEN Low
            ELSE Medium
    IN [severity |-> Str(severity),
        impact_score |-> Num(DefaultScore),
        frequency_score |-> Num(DefaultScore),
        recovery_score |-> Num(DefaultScore),
        weighted_score |-> Num(DefaultScore),
        reasoning |-> Str(ParsedReasoning)]

\* _fallback_parse
FallbackParse(text) ==
    LET lowered == Lower(text)
        severity ==
            IF Contains(KwCritical, lowered) THEN Critical
            ELSE IF Contains(KwHigh, lowered) THEN High
            ELSE IF Contains(KwLow, lowered) THEN Low
            ELSE Medium
    IN [severity |-> Str(severity),
        impact_score |-> Num(DefaultScore),
        frequency_score |-> Num(DefaultScore),
        recovery_score |-> Num(DefaultScore),
        weighted_score |-> Num(DefaultScore),
        reasoning |-> Str(ParsedReasoning)]


\* _default_classification with the reasoning of _fallback_parse
DefaultClassificationParsedReasoning ==
    [severity |-> Str(Medium),
     impact_score |-> Num(DefaultScore),
     frequency_score |-> Num(DefaultScore),
     recovery_score |-> Num(DefaultScore),
     weighted_score |-> Num(DefaultScore),
     reasoning |-> Str(ParsedReasoning)]

\* _default_classification
DefaultClassification ==
    [severity |-> Str(Medium),
     impact_score |-> Num(DefaultScore),
     frequency_score |-> Num(DefaultScore),
     recovery_score |-> Num(DefaultScore),
     weighted_score |-> Num(DefaultScore),
     reasoning |-> Str(DefaultReasoning)]

\* float arithmetic applies to numbers and NaN; str, None and list operands
\* raise TypeError
IsNumeric(v) == v.t \in {"num", "nan"}

\* 0.5 * impact + 0.3 * frequency + 0.2 * recovery over dict.get(key, 5);
\* NaN in, NaN out.  Scores are multiples of 0.1, so the sum is exact in
\* hundredths.
WeightedScore(d) ==
    LET i == Get(d, "impact_score", Num(DefaultScore))
        f == Get(d, "frequency_score", Num(DefaultScore))
        r == Get(d, "recovery_score", Num(DefaultScore))
    IN IF "nan" \in {i.t, f.t, r.t}
       THEN NaN
       ELSE Num((5 * i.n + 3 * f.n + 2 * r.n) \div 10)

WeightedRaises(d) ==
    \E key \in ScoreKeys : ~IsNumeric(Get(d, key, Num(DefaultScore)))


\* _parse_classification with the decode error handled by _fallback_parse
ParseFallsBackOnDecodeError(response) ==
    LET json_match == ReSearch(Chunks(response))
        loaded == JsonLoads(json_match.inner)
        classification ==
            IF json_match.found /\ loaded.ok
            THEN loaded.d
            ELSE FallbackParse(Text(response))
    IN IF classification["weighted_score"].t # "absent"
       THEN [ok |-> TRUE, d |-> classification]
       ELSE IF WeightedRaises(classification)
       THEN [ok |-> FALSE, d |-> EmptyDict]
       ELSE [ok |-> TRUE,
             d |-> [classification EXCEPT
                       !["weighted_score"] = WeightedScore(classification)]]

\* _parse_classification: ok with the dict it returns, or the TypeError
\* that leaves it (only JSONDecodeError is caught)
ParseClassification(response) ==
    LET json_match == ReSearch(Chunks(response))
        loaded == JsonLoads(json_match.inner)
        classification ==
            IF json_match.found THEN loaded.d ELSE FallbackParse(Text(response))
    IN IF json_match.found /\ ~loaded.ok
       THEN [ok |-> TRUE, d |-> DefaultClassification]
       ELSE IF classification["weighted_score"].t # "absent"
       THEN [ok |-> TRUE, d |-> classification]
       ELSE IF WeightedRaises(classification)
       THEN [ok |-> FALSE, d |-> EmptyDict]
       ELSE [ok |-> TRUE,
             d |-> [classification EXCEPT
                       !["weighted_score"] = WeightedScore(classification)]]

(* ------------------------ _validate_classification -------------------- *)

\* min(a, b) and max(a, b) of Python on two arguments: the first argument
\* unless the second is strictly smaller (greater); every comparison with
\* NaN is false
PyLess(a, b) == a.t = "num" /\ b.t = "num" /\ a.n < b.n
PyMin(a, b) == IF PyLess(b, a) THEN b ELSE a
PyMax(a, b) == IF PyLess(a, b) THEN b ELSE a


\* min(10, v) alone
ClampUpperOnly(v) == PyMin(Num(MaxScore), v)

\* max(0, min(10, v))
Clamp(v) == PyMax(Num(MinScore), PyMin(Num(MaxScore), v))


\* the severity test comparing lowercased labels
SeverityInvalidIgnoringCase(d) ==
    ~(d["severity"].t = "str"
        /\ Lower(d["severity"].s) \in {Lower(s) : s \in ValidSeverities})

\* classification.get('severity') not in valid_severities
SeverityInvalid(d) ==
    ~(d["severity"].t = "str" /\ d["severity"].s \in ValidSeverities)

\* the loop over the score keys raises TypeError on a str, None or list
ClampRaises(d) ==
    \E key \in ScoreKeys : d[key].t \notin {"absent", "num", "nan"}


\* _validate_classification keeping a weighted_score that is present
ValidateKeepsWeighted(d) ==
    LET sev == IF SeverityInvalid(d) THEN Str(Medium) ELSE d["severity"]
        clamped ==
            [k \in Keys |->
                IF k = "severity" THEN sev
                ELSE IF k \in ScoreKeys /\ d[k].t # "absent" THEN Clamp(d[k])
                ELSE d[k]]
    IN IF clamped["weighted_score"].t # "absent"
       THEN clamped
       ELSE [clamped EXCEPT !["weighted_score"] = WeightedScore(clamped)]

\* _validate_classification on a dict whose scores can be compared
ValidateClassification(d) ==
    LET sev == IF SeverityInvalid(d) THEN Str(Medium) ELSE d["severity"]
        clamped ==
            [k \in Keys |->
                IF k = "severity" THEN sev
                ELSE IF k \in ScoreKeys /\ d[k].t # "absent" THEN Clamp(d[k])
                ELSE d[k]]
    IN [clamped EXCEPT !["weighted_score"] = WeightedScore(clamped)]

(* ------------------------------ inputs -------------------------------- *)

Instances == {1, 2}
Endpoints == {"/api/users/register", "/api/orders"}

\* free text: "CRITICAL", "High", "below", "ok"
Words ==
    {<<"C","R","I","T","I","C","A","L">>, High, <<"b","e","l","o","w">>,
     <<"o","k">>}

\* severities the model may write: the four labels, "critical", "Blocker",
\* null, or no severity key
SeverityVals ==
    {Str(s) : s \in ValidSeverities}
        \cup {Str(Lower(Critical)), Str(<<"B","l","o","c","k","e","r">>),
              Null, Absent}

\* scores the model may write: whole numbers -MaxMag..MaxMag, 7.5, 9, 10,
\* 20, NaN, a string, null, a list, or no such key
ScoreVals ==
    {Num(100 * x) : x \in (0 - MaxMag)..MaxMag}
        \cup {Num(750), Num(900), Num(1000), Num(2000), NaN, Str(<<"9">>),
              Null, List, Absent}

\* decoded member lists
Mems ==
    [severity : SeverityVals,
     impact_score : ScoreVals,
     frequency_score : ScoreVals,
     recovery_score : ScoreVals,
     weighted_score : {Absent, Num(9900)},
     reasoning : {Absent, Str(<<"o","k">>)}]

\* {"severity": "High", "impact_score": 9, "frequency_score": 20,
\*  "recovery_score": -3, "weighted_score": 99, "reasoning": "ok"}
FullMem ==
    [severity |-> Str(High), impact_score |-> Num(900),
     frequency_score |-> Num(2000), recovery_score |-> Num(-300),
     weighted_score |-> Num(9900), reasoning |-> Str(<<"o","k">>)]

\* FullMem up to its reasoning key
OpenMem == [FullMem EXCEPT !["reasoning"] = Absent]

\* "severity": "Low"
PartialMem == [EmptyDict EXCEPT !["severity"] = Str(Low)]

\* "severity": "High", "impact_score": "9"
StringScoreMem ==
    [EmptyDict EXCEPT !["severity"] = Str(High),
                      !["impact_score"] = Str(<<"9">>)]

Alphabet ==
    {LB, RB, WS} \cup {Word(w) : w \in Words}
        \cup {Obj(FullMem), Mem(FullMem), ObjBraceStr(OpenMem, <<"i","d">>),
              Obj(PartialMem), Mem(PartialMem)}

TokenSeqs(n) == UNION {[1..k -> Alphabet] : k \in 0..n}

\* responses of the model under ParseSpec: every one-object response, and
\* every token sequence up to MaxTokens
Responses == {<<Obj(m)>> : m \in Mems} \cup TokenSeqs(MaxTokens)

\* responses of the model under Spec
HistResponses ==
    {<<Obj(FullMem)>>, <<Word(<<"C","R","I","T","I","C","A","L">>)>>,
     <<Obj(StringScoreMem)>>}

(* ------------------------------- state -------------------------------- *)

\* history[i]  classification_history of instance i
\* calls[i]    classify calls of instance i that returned
\* last        the most recent classify call: instance, endpoint, the
\*             model's response, how it ended and what it returned
\* prompts     the prompts llm_engine.generate received, in order, during
\*             the most recent classifier operation
\* batch       the most recent operation if it was classify_batch: its
\*             argument, what the model did on each call made, how it
\*             ended, the list it returned and the number of records
\*             classified
\* stats       the most recent operation if it was get_statistics: the
\*             dict it returned
NoCall ==
    [inst |-> 0, endpoint |-> "", response |-> <<>>, outcome |-> "none",
     result |-> EmptyDict]

NoBatch ==
    [inst |-> 0, bugs |-> <<>>, answers |-> <<>>, outcome |-> "none",
     results |-> <<>>, done |-> 0]

NoStats ==
    [inst |-> 0, total_classifications |-> 0,
     severity_distribution |-> <<>>,
     average_weighted_score |-> [num |-> 0, den |-> 1]]

\* the arguments of classify other than the endpoint
ErrorMessage == "AssertionError: assert 500 == 200"
TestContext == "Test user registration"

\* bug_classification_prompt: the template with its three slots filled
BugClassificationPrompt(error_message, test_context, endpoint) ==
    [error_message |-> error_message, test_context |-> test_context,
     endpoint |-> endpoint]

\* BugClassifier.__init__
ClassifierInit ==
    /\ history = [i \in Instances |-> <<>>]
    /\ calls = [i \in Instances |-> 0]
    /\ last = NoCall
    /\ prompts = <<>>
    /\ batch = NoBatch
    /\ stats = NoStats

\* classification_history as one list shared by the instances
AppendHistoryShared(h, i, entry) == [j \in DOMAIN h |-> Append(h[j], entry)]

\* self.classification_history.append({...})
AppendHistory(h, i, entry) == [h EXCEPT ![i] = Append(@, entry)]

\* classify, the model having answered response
Classify(i, endpoint, response) ==
    LET parsed == ParseClassification(response)
        raised == ~parsed.ok \/ ClampRaises(parsed.d)
        classification == ValidateClassification(parsed.d)
    IN /\ calls[i] < MaxCalls
       /\ IF raised
          THEN /\ last' = [inst |-> i, endpoint |-> endpoint,
                           response |-> response, outcome |-> "TypeError",
                           result |-> EmptyDict]
               /\ UNCHANGED <<history, calls>>
          ELSE /\ history' = AppendHistory(history, i,
                                 [endpoint |-> endpoint,
                                  classification |-> classification])
               /\ calls' = [calls EXCEPT ![i] = @ + 1]
               /\ last' = [inst |-> i, endpoint |-> endpoint,
                           response |-> response, outcome |-> "returned",
                           result |-> classification]
       /\ prompts' =
             <<BugClassificationPrompt(ErrorMessage, TestContext, endpoint)>>
       /\ batch' = NoBatch
       /\ stats' = NoStats
       /\ UNCHANGED <<interpreterVars, userVars, serviceVars>>

\* classify sending its prompt a second time after llm_engine.generate
\* raised, the second call raising too
ClassifyModelRaisesRetried(i, endpoint) ==
    /\ calls[i] < MaxCalls
    /\ last' = [inst |-> i, endpoint |-> endpoint, response |-> <<>>,
                outcome |-> "ModelError", result |-> EmptyDict]
    /\ prompts' =
          <<BugClassificationPrompt(ErrorMessage, TestContext, endpoint),
            BugClassificationPrompt(ErrorMessage, TestContext, endpoint)>>
    /\ batch' = NoBatch
    /\ stats' = NoStats
    /\ UNCHANGED <<history, calls, interpreterVars, userVars, serviceVars>>

\* classify, llm_engine.generate having raised
ClassifyModelRaises(i, endpoint) ==
    /\ calls[i] < MaxCalls
    /\ last' = [inst |-> i, endpoint |-> endpoint, response |-> <<>>,
                outcome |-> "ModelError", result |-> EmptyDict]
    /\ prompts' =
          <<BugClassificationPrompt(ErrorMessage, TestContext, endpoint)>>
    /\ batch' = NoBatch
    /\ stats' = NoStats
    /\ UNCHANGED <<history, calls, interpreterVars, userVars, serviceVars>>

(* ---------------------------- classify_batch -------------------------- *)

\* a bug record: keys are the keys the dict has, the other fields their
\* values ("" for a key it lacks)
Bug(keys, error_message, test_context, endpoint) ==
    [keys |-> keys, error_message |-> error_message,
     test_context |-> test_context, endpoint |-> endpoint]

BugKeys == {"error_message", "test_context", "endpoint"}

\* the records classify_batch is given
Bugs ==
    {Bug(BugKeys, ErrorMessage, TestContext, "/api/users/register"),
     Bug(BugKeys \ {"test_context"}, ErrorMessage, "", "/api/orders"),
     Bug(BugKeys \ {"endpoint"}, ErrorMessage, TestContext, ""),
     Bug(BugKeys \ {"error_message"}, "", TestContext, "/api/orders")}

\* what llm_engine.generate does on one call: raise, or answer response
Answer(raises, response) == [raises |-> raises, response |-> response]
Answers ==
    {Answer(FALSE, r) : r \in HistResponses} \cup {Answer(TRUE, <<>>)}

\* {**bug, "classification": classification}
MergeBug(bug, classification) ==
    [keys |-> bug.keys \cup {"classification"},
     error_message |-> bug.error_message,
     test_context |-> bug.test_context,
     endpoint |-> bug.endpoint,
     classification |-> classification]

\* results.insert(0, ...) in place of results.append(...)
PrependResult(results, bug, classification) ==
    <<MergeBug(bug, classification)>> \o results

\* results.append({**bug, "classification": classification})
AppendResult(results, bug, classification) ==
    Append(results, MergeBug(bug, classification))

\* the exception undoing the appends that the earlier records made to the
\* history
RaiseRestoring(acc, i, outcome) ==
    [acc EXCEPT !.outcome = outcome,
                !.h = [acc.h EXCEPT
                          ![i] = SubSeq(@, 1, Len(@) - Len(acc.results))]]

\* the exception leaving classify_batch from inside its loop: nothing
\* catches it, and what the earlier records appended stays
Raise(acc, i, outcome) == [acc EXCEPT !.outcome = outcome]

\* the loop of classify_batch from record k on.  acc holds the history of
\* the instance, the results so far, the prompts sent so far and the last
\* classify call; the loop ends "returned" after the last record, or with
\* the exception that leaves it: KeyError for bug['error_message'] or
\* bug['endpoint'] on a record without that key, the model's error, or
\* the TypeError of classify.
RECURSIVE BatchLoop(_, _, _, _, _)
BatchLoop(acc, i, bugs, answers, k) ==
    IF k > Len(bugs)
    THEN [acc EXCEPT !.outcome = "returned"]
    ELSE
    LET bug == bugs[k]
    IN IF ~({"error_message", "endpoint"} \subseteq bug.keys)
       THEN Raise(acc, i, "KeyError")
       ELSE
       LET test_context ==
               IF "test_context" \in bug.keys THEN bug.test_context ELSE ""
           prompt ==
               BugClassificationPrompt(bug.error_message, test_context,
                                       bug.endpoint)
           sent == Append(acc.prompts, prompt)
           parsed == ParseClassification(answers[k].response)
           raised == ~parsed.ok \/ ClampRaises(parsed.d)
           classification == ValidateClassification(parsed.d)
           call(outcome, response, result) ==
               [inst |-> i, endpoint |-> bug.endpoint, response |-> response,
                outcome |-> outcome, result |-> result]
       IN IF answers[k].raises
          THEN Raise([acc EXCEPT !.prompts = sent,
                                 !.last = call("ModelError", <<>>,
                                               EmptyDict)],
                     i, "ModelError")
          ELSE IF raised
          THEN Raise([acc EXCEPT !.prompts = sent,
                                 !.last = call("TypeError",
                                               answers[k].response,
                                               EmptyDict)],
                     i, "TypeError")
          ELSE BatchLoop(
                  [h |-> AppendHistory(acc.h, i,
                             [endpoint |-> bug.endpoint,
                              classification |-> classification]),
                   results |-> AppendResult(acc.results, bug, classification),
                   prompts |-> sent,
                   last |-> call("returned", answers[k].response,
                                 classification),
                   outcome |-> acc.outcome],
                  i, bugs, answers, k + 1)

\* classify_batch(bugs), the model doing answers[k] on its k-th call
ClassifyBatch(i, bugs, answers) ==
    /\ Len(answers) = Len(bugs)
    /\ calls[i] + Len(bugs) <= MaxCalls
    /\ \E run \in {BatchLoop([h |-> history, results |-> <<>>,
                              prompts |-> <<>>, last |-> last,
                              outcome |-> "none"],
                             i, bugs, answers, 1)} :
       LET done == Len(run.results)
       IN
       /\ history' = run.h
       /\ calls' = [calls EXCEPT ![i] = @ + done]
       /\ last' = run.last
       /\ prompts' = run.prompts
       /\ batch' = [inst |-> i, bugs |-> bugs,
                    answers |-> SubSeq(answers, 1, Len(run.prompts)),
                    outcome |-> run.outcome,
                    results |-> IF run.outcome = "returned"
                                THEN run.results ELSE <<>>,
                    done |-> done]
       /\ stats' = NoStats
       /\ UNCHANGED <<interpreterVars, userVars, serviceVars>>

SeqsUpTo(S, n) == UNION {[1..k -> S] : k \in 0..n}

(* ---------------------- BugClassifier.get_statistics ------------------- *)

\* severity_counts[severity] = severity_counts.get(severity, 0) + 1
CountOne(counts, severity) ==
    [s \in DOMAIN counts \cup {severity} |->
        IF s = severity
        THEN (IF s \in DOMAIN counts THEN counts[s] ELSE 0) + 1
        ELSE counts[s]]

\* the loop over classification_history from entry k on
RECURSIVE StatsLoop(_, _, _, _)
StatsLoop(h, k, severity_counts, total_score) ==
    IF k > Len(h)
    THEN [severity_counts |-> severity_counts, total_score |-> total_score]
    ELSE StatsLoop(h, k + 1,
                   CountOne(severity_counts,
                            h[k]["classification"]["severity"].s),
                   total_score + h[k]["classification"]["weighted_score"].n)

\* the dict get_statistics returns, the mean dividing by the number of
\* severities seen
StatisticsOverSeverities(h) ==
    IF h = <<>>
    THEN [total_classifications |-> 0,
          severity_distribution |-> <<>>,
          average_weighted_score |-> [num |-> 0, den |-> 1]]
    ELSE LET loop == StatsLoop(h, 1, <<>>, 0)
         IN [total_classifications |-> Len(h),
             severity_distribution |-> loop.severity_counts,
             average_weighted_score |->
                 [num |-> loop.total_score,
                  den |-> Cardinality(DOMAIN loop.severity_counts)]]

\* the dict get_statistics returns for history h; the quotient
\* total_score / len(history) is kept as numerator and denominator
Statistics(h) ==
    IF h = <<>>
    THEN [total_classifications |-> 0,
          severity_distribution |-> <<>>,
          average_weighted_score |-> [num |-> 0, den |-> 1]]
    ELSE LET loop == StatsLoop(h, 1, <<>>, 0)
         IN [total_classifications |-> Len(h),
             severity_distribution |-> loop.severity_counts,
             average_weighted_score |->
                 [num |-> loop.total_score, den |-> Len(h)]]

\* get_statistics
GetStatistics(i) ==
    LET s == Statistics(history[i])
    IN /\ stats' = [inst |-> i,
                    total_classifications |-> s.total_classifications,
                    severity_distribution |-> s.severity_distribution,
                    average_weighted_score |-> s.average_weighted_score]
       /\ batch' = NoBatch
       /\ UNCHANGED <<history, calls, last, prompts, interpreterVars,
                      userVars, serviceVars>>

(* --------------------- LogInterpreter: section parser ----------------- *)

\* The text of a response is a sequence of atoms: "*", " ", "\n", a
\* section label as the model wrote it ("Root Cause:", "ROOT CAUSE:"), or
\* a word free of asterisks and whitespace.

\* the atoms \s matches and str.strip() removes
Whitespace == {" ", "\n"}

\* what re.IGNORECASE compares an atom by
FoldAtom(atom) ==
    CASE atom \in {"Root Cause:", "ROOT CAUSE:"} -> "root cause:"
      [] atom = "Affected Components:" -> "affected components:"
      [] atom = "Recommended Fix:" -> "recommended fix:"
      [] atom = "Prevention:" -> "prevention:"
      [] OTHER -> atom

\* the first position from p on that holds no whitespace, searching up
RECURSIVE SkipWhitespace(_, _)
SkipWhitespace(text, p) ==
    IF p <= Len(text) /\ text[p] \in Whitespace
    THEN SkipWhitespace(text, p + 1)
    ELSE p

\* the last position up to p that holds no whitespace, searching down
RECURSIVE SkipWhitespaceBack(_, _)
SkipWhitespaceBack(text, p) ==
    IF p >= 1 /\ text[p] \in Whitespace
    THEN SkipWhitespaceBack(text, p - 1)
    ELSE p

\* str.strip()
Strip(text) ==
    SubSeq(text, SkipWhitespace(text, 1), SkipWhitespaceBack(text, Len(text)))

Stars == <<"*","*">>

RootCauseLabel == <<"Root Cause:">>
AffectedComponentsLabel == <<"Affected Components:">>
RecommendedFixLabel == <<"Recommended Fix:">>
PreventionLabel == <<"Prevention:">>

\* r"\*\*<label>\*\*\s*(.*?)(?=\*\*|$)": the literal the pattern starts
\* with and the literal alternative of its lookahead; \s*, the lazy group
\* and the $ alternative are the same in every pattern
SectionPattern(label) ==
    [literal |-> Stars \o label \o Stars, ahead |-> Stars]

SectionKeys ==
    {"root_cause", "affected_components", "recommended_fix", "prevention"}

\* the sections dict of _parse_interpretation
Sections ==
    [root_cause |-> SectionPattern(RootCauseLabel),
     affected_components |-> SectionPattern(AffectedComponentsLabel),
     recommended_fix |-> SectionPattern(RecommendedFixLabel),
     prevention |-> SectionPattern(PreventionLabel)]

\* str.replace(r"\*\*", "").replace(r"\*", "") on a piece of a pattern
Unstar(piece) == SelectSeq(piece, LAMBDA c : c # "*")

\* pattern_simple: the replace reaches the starred label and the
\* lookahead alike, which leaves (?=|$)
PatternSimple(pattern) ==
    [literal |-> Unstar(pattern.literal), ahead |-> Unstar(pattern.ahead)]

\* literal matches at position p of text, atoms compared as
\* re.IGNORECASE compares them
LiteralAt(literal, text, p) ==
    /\ p + Len(literal) - 1 <= Len(text)
    /\ \A k \in 1..Len(literal) :
           FoldAtom(text[p + k - 1]) = FoldAtom(literal[k])

\* the leftmost position from p on where literal matches, 0 if none
RECURSIVE FindLiteral(_, _, _)
FindLiteral(literal, text, p) ==
    IF p + Len(literal) - 1 > Len(text) THEN 0
    ELSE IF LiteralAt(literal, text, p) THEN p
    ELSE FindLiteral(literal, text, p + 1)

\* the lookahead (?=ahead|$) at position p: the literal alternative, or
\* the end of the text, or the newline that ends the text
AheadAt(ahead, text, p) ==
    \/ LiteralAt(ahead, text, p)
    \/ p = Len(text) + 1
    \/ p = Len(text) /\ text[p] = "\n"

\* where the lazy group (.*?) that starts at p ends: it grows one atom at
\* a time until the lookahead holds
RECURSIVE LazyEnd(_, _, _)
LazyEnd(ahead, text, p) ==
    IF AheadAt(ahead, text, p) THEN p ELSE LazyEnd(ahead, text, p + 1)

\* re.search(pattern, text, re.DOTALL | re.IGNORECASE): whether the pattern
\* matches and group(1) of the leftmost match.  The literal is sought
\* leftmost; \s* then takes every whitespace atom that follows, and the
\* lazy group starts there.
SectionSearch(pattern, text) ==
    LET p == FindLiteral(pattern.literal, text, 1)
    IN IF p = 0
       THEN [found |-> FALSE, group |-> <<>>]
       ELSE
       LET from == SkipWhitespace(text, p + Len(pattern.literal))
           to == LazyEnd(pattern.ahead, text, from)
       IN [found |-> TRUE, group |-> SubSeq(text, from, to - 1)]

\* one pass of the loop over sections.items(): the value of
\* interpretation[key] after it
ParseSection(pattern, response) ==
    LET match == SectionSearch(pattern, response)
        simple == SectionSearch(PatternSimple(pattern), response)
    IN IF match.found THEN Strip(match.group)
       ELSE IF simple.found THEN Strip(simple.group)
       ELSE <<>>

\* the leftmost position from p on where a blank line starts, 0 if none
RECURSIVE FindBlankLine(_, _)
FindBlankLine(text, p) ==
    IF p + 1 > Len(text) THEN 0
    ELSE IF text[p] = "\n" /\ text[p + 1] = "\n" THEN p
    ELSE FindBlankLine(text, p + 1)

\* response.split('\n\n')
RECURSIVE SplitBlankLine(_)
SplitBlankLine(text) ==
    LET p == FindBlankLine(text, 1)
    IN IF p = 0
       THEN <<text>>
       ELSE <<SubSeq(text, 1, p - 1)>>
                \o SplitBlankLine(SubSeq(text, p + 2, Len(text)))

\* the list comprehension without its filter
ParagraphsKeepingEmpty(response) ==
    LET parts == SplitBlankLine(response)
    IN [k \in 1..Len(parts) |-> Strip(parts[k])]

\* [p.strip() for p in response.split('\n\n') if p.strip()]
Paragraphs(response) ==
    LET parts == SplitBlankLine(response)
        stripped == [k \in 1..Len(parts) |-> Strip(parts[k])]
    IN SelectSeq(stripped, LAMBDA p : p # <<>>)

UnableToDetermine == <<"Unable to determine root cause">>
Unknown == <<"Unknown">>
ManualInvestigation == <<"Manual investigation required">>
NotApplicable == <<"N/A">>

\* LogInterpreter._fallback_parse
InterpreterFallbackParse(response) ==
    LET paragraphs == Paragraphs(response)
        nth(k, placeholder) ==
            IF Len(paragraphs) > k - 1 THEN paragraphs[k] ELSE placeholder
    IN [root_cause |-> nth(1, UnableToDetermine),
        affected_components |-> nth(2, Unknown),
        recommended_fix |-> nth(3, ManualInvestigation),
        prevention |-> nth(4, NotApplicable),
        raw_response |-> response]

\* _parse_interpretation taking the paragraph fallback when any of the
\* four fields is empty
ParseInterpretationAnyEmpty(response) ==
    LET interpretation ==
            [root_cause |-> ParseSection(Sections["root_cause"], response),
             affected_components |->
                 ParseSection(Sections["affected_components"], response),
             recommended_fix |->
                 ParseSection(Sections["recommended_fix"], response),
             prevention |-> ParseSection(Sections["prevention"], response),
             raw_response |-> response]
    IN IF \E key \in SectionKeys : interpretation[key] = <<>>
       THEN InterpreterFallbackParse(response)
       ELSE interpretation

\* LogInterpreter._parse_interpretation
ParseInterpretation(response) ==
    LET interpretation ==
            [root_cause |-> ParseSection(Sections["root_cause"], response),
             affected_components |->
                 ParseSection(Sections["affected_components"], response),
             recommended_fix |->
                 ParseSection(Sections["recommended_fix"], response),
             prevention |-> ParseSection(Sections["prevention"], response),
             raw_response |-> response]
    IN IF interpretation["root_cause"] = <<>>
       THEN InterpreterFallbackParse(response)
       ELSE interpretation

(* ----------------------- LogInterpreter: inputs ------------------------ *)

\* a block of a response: a section under a bold label ("**Root Cause:**
\* db"), a section under a plain label ("Root Cause: db"), or text with no
\* label.  label is the label as the model wrote it.
Bold(label, body) == [kind |-> "bold", label |-> label, body |-> body]
Plain(label, body) == [kind |-> "plain", label |-> label, body |-> body]
Para(body) == [kind |-> "text", label |-> <<>>, body |-> body]

RootCauseUpper == <<"ROOT CAUSE:">>

\* section bodies
DbDown == <<"db"," ","down">>
Pool == <<"pool">>
Restart == <<"restart"," ","it">>
Alerts == <<"add"," ","alerts">>

\* the atoms of a block
BlockText(block) ==
    IF block.kind = "bold"
    THEN Stars \o block.label \o Stars \o <<" ">> \o block.body
    ELSE IF block.kind = "plain"
    THEN block.label \o <<" ">> \o block.body
    ELSE block.body

\* a response of the model: blocks and what separates them
Response(blocks, sep) == [blocks |-> blocks, sep |-> sep]

RECURSIVE JoinBlocks(_, _)
JoinBlocks(blocks, sep) ==
    IF blocks = <<>> THEN <<>>
    ELSE IF Len(blocks) = 1 THEN BlockText(blocks[1])
    ELSE BlockText(blocks[1]) \o sep \o JoinBlocks(Tail(blocks), sep)

\* the string llm_engine.generate returns
ResponseText(response) == JoinBlocks(response.blocks, response.sep)

BlankLine == <<"\n","\n">>
NewLine == <<"\n">>

SectionBlocks ==
    {Bold(RootCauseLabel, DbDown), Bold(RootCauseUpper, DbDown),
     Bold(RootCauseLabel, <<>>), Bold(AffectedComponentsLabel, Pool),
     Bold(RecommendedFixLabel, Restart), Bold(PreventionLabel, Alerts),
     Plain(RootCauseLabel, DbDown), Plain(AffectedComponentsLabel, Pool),
     Plain(RecommendedFixLabel, Restart), Para(DbDown)}

ParaBlocks == {Para(DbDown), Para(Pool), Para(Restart), Para(<<" ">>)}

\* responses of the model under IParseSpec: up to MaxBlocks blocks
\* separated by blank lines or by newlines, and up to MaxParas unlabelled
\* paragraphs separated by blank lines
InterpreterResponses ==
    {Response(blocks, sep) :
        blocks \in SeqsUpTo(SectionBlocks, MaxBlocks),
        sep \in {BlankLine, NewLine}}
    \cup {Response(blocks, BlankLine) :
             blocks \in SeqsUpTo(ParaBlocks, MaxParas)}

\* responses of the model under InterpSpec
InterpreterHistResponses ==
    {Response(<<Bold(RootCauseLabel, DbDown),
                Bold(AffectedComponentsLabel, Pool)>>, BlankLine),
     Response(<<Para(DbDown)>>, BlankLine)}

Services == {"user-service", "order-service"}

Digits == <<"0","1","2","3","4","5","6","7","8","9">>

\* an error log of n characters
Log(n) == [k \in 1..n |-> Digits[(k % 10) + 1]]

\* error logs shorter than LogLimit, of LogLimit characters, and longer
ErrorLogs == {Log(n) : n \in {0, 3, LogLimit, LogLimit + MaxOver}}

(* ------------------------ LogInterpreter: state ------------------------ *)

\* ihistory   interpretation_history
\* ilast      the most recent LogInterpreter operation: its arguments, the
\*            model's response, how it ended, the dict it returned and the
\*            prompts llm_engine.generate received during it
NoResponse == Response(<<>>, <<>>)

NoInterpretation ==
    [root_cause |-> <<>>, affected_components |-> <<>>,
     recommended_fix |-> <<>>, prevention |-> <<>>, raw_response |-> <<>>,
     service_name |-> "", original_log |-> <<>>]

NoInterpreterStats ==
    [keys |-> {}, total_interpretations |-> 0, services_analyzed |-> <<>>,
     unique_services |-> 0]

NoInterpret ==
    [op |-> "none", service_name |-> "", error_log |-> <<>>,
     response |-> NoResponse, outcome |-> "none",
     result |-> NoInterpretation, prompts |-> <<>>,
     stats |-> NoInterpreterStats]

\* LogInterpreter.__init__
InterpreterInit ==
    /\ ihistory = <<>>
    /\ ilast = NoInterpret

\* log_interpretation_prompt: the template with its two slots filled
LogInterpretationPrompt(error_log, service_name) ==
    [service_name |-> service_name, error_log |-> error_log]

\* error_log[:n - 1]
SliceShort(text, n) ==
    SubSeq(text, 1, IF Len(text) < n - 1 THEN Len(text) ELSE n - 1)

\* error_log[:n]
Slice(text, n) == SubSeq(text, 1, IF Len(text) < n THEN Len(text) ELSE n)

\* interpret, the model having answered response
Interpret(error_log, service_name, response) ==
    \E parsed \in {ParseInterpretation(ResponseText(response))} :
    LET prompt == LogInterpretationPrompt(error_log, service_name)
        interpretation ==
            [root_cause |-> parsed.root_cause,
             affected_components |-> parsed.affected_components,
             recommended_fix |-> parsed.recommended_fix,
             prevention |-> parsed.prevention,
             raw_response |-> parsed.raw_response,
             service_name |-> service_name,
             original_log |-> Slice(error_log, LogLimit)]
    IN /\ Len(ihistory) < MaxInterps
       /\ ihistory' = Append(ihistory,
                             [service |-> service_name,
                              interpretation |-> interpretation])
       /\ ilast' = [op |-> "interpret", service_name |-> service_name,
                    error_log |-> error_log, response |-> response,
                    outcome |-> "returned", result |-> interpretation,
                    prompts |-> <<prompt>>, stats |-> NoInterpreterStats]
       /\ UNCHANGED <<classifierVars, userVars, serviceVars>>

\* interpret, llm_engine.generate having raised
InterpretModelRaises(error_log, service_name) ==
    /\ Len(ihistory) < MaxInterps
    /\ ilast' = [op |-> "interpret", service_name |-> service_name,
                 error_log |-> error_log, response |-> NoResponse,
                 outcome |-> "ModelError", result |-> NoInterpretation,
                 prompts |->
                     <<LogInterpretationPrompt(error_log, service_name)>>,
                 stats |-> NoInterpreterStats]
    /\ UNCHANGED <<ihistory, classifierVars, userVars, serviceVars>>

\* list(services): the elements of the set, each once, in an order the
\* set decides
Orders(services) ==
    {order \in [1..Cardinality(services) -> services] :
        \A a, b \in DOMAIN order : order[a] = order[b] => a = b}

\* LogInterpreter.get_statistics; keys are the keys of the dict returned
InterpreterGetStatistics ==
    LET services == {ihistory[k].service : k \in 1..Len(ihistory)}
    IN /\ \E order \in Orders(services) :
              ilast' =
                  [NoInterpret EXCEPT
                      !.op = "get_statistics",
                      !.outcome = "returned",
                      !.stats =
                          IF ihistory = <<>>
                          THEN [keys |-> {"total_interpretations",
                                          "services_analyzed"},
                                total_interpretations |-> 0,
                                services_analyzed |-> <<>>,
                                unique_services |-> 0]
                          ELSE [keys |-> {"total_interpretations",
                                          "services_analyzed",
                                          "unique_services"},
                                total_interpretations |-> Len(ihistory),
                                services_analyzed |-> order,
                                unique_services |-> Cardinality(services)]]
       /\ UNCHANGED <<ihistory, classifierVars, userVars, serviceVars>>

(* --------------------- user service: register_user --------------------- *)

\* users   the rows of the users table, in insertion order
\* ulast   the most recent register request and its response
DigitChars == {Digits[k] : k \in 1..Len(Digits)}
UpperChars == {Upper[k] : k \in 1..Len(Upper)}
LowerChars == {LowerLetters[k] : k \in 1..Len(LowerLetters)}

\* UserRegister.validate_password: whether it returns
ValidatePassword(v) ==
    /\ ~(Len(v) < 8)
    /\ \E k \in 1..Len(v) : v[k] \in UpperChars
    /\ \E k \in 1..Len(v) : v[k] \in LowerChars
    /\ \E k \in 1..Len(v) : v[k] \in DigitChars

\* re.match(r'^[a-zA-Z0-9_]+$', v): one or more word characters up to the
\* end of v, or up to the newline that ends v
MatchesWord(v) ==
    LET word(n) ==
            /\ n >= 1
            /\ \A k \in 1..n :
                   v[k] \in UpperChars \cup LowerChars \cup DigitChars
                               \cup {"_"}
    IN \/ word(Len(v))
       \/ Len(v) >= 1 /\ v[Len(v)] = "\n" /\ word(Len(v) - 1)

\* UserRegister.validate_username: whether it returns
ValidateUsername(v) ==
    /\ ~(Len(v) < 3)
    /\ MatchesWord(v)

Emails == {"test@example.com", "duplicate@example.com", "weak@example.com"}

\* "testuser", "dupuser", "user_2", "ab", "bad name"
Usernames ==
    {<<"t","e","s","t","u","s","e","r">>,
     <<"d","u","p","u","s","e","r">>,
     <<"u","s","e","r","_","2">>,
     <<"a","b">>,
     <<"b","a","d"," ","n","a","m","e">>}

\* "Test1234", "weak", "test1234"
Passwords ==
    {<<"T","e","s","t","1","2","3","4">>,
     <<"w","e","a","k">>,
     <<"t","e","s","t","1","2","3","4">>}

FullName == "Test User"

NoRequest == [status |-> 0, email |-> "", username |-> <<>>, detail |-> ""]

\* the table after init_db on a fresh database
UserInit ==
    /\ users = <<>>
    /\ ulast = NoRequest

\* db.query(User).filter(User.email == email).first() is not None
EmailTaken(rows, email) == \E k \in 1..Len(rows) : rows[k].email = email

\* the username query finding no row whatever the table holds
UsernameNeverTaken(rows, username) == FALSE

\* db.query(User).filter(User.username == username).first() is not None
UsernameTaken(rows, username) ==
    \E k \in 1..Len(rows) : rows[k].username = username

\* POST /api/users/register: the request validation of UserRegister, then
\* register_user.  The row keeps the columns the handler fills from the
\* request and the id the table assigns.
RegisterUser(email, username, password, full_name) ==
    LET respond(status, detail) ==
            [status |-> status, email |-> email, username |-> username,
             detail |-> detail]
    IN IF ~(ValidatePassword(password) /\ ValidateUsername(username))
       THEN /\ ulast' = respond(422, "")
            /\ UNCHANGED <<users, classifierVars, interpreterVars, serviceVars>>
       ELSE IF EmailTaken(users, email)
       THEN /\ ulast' = respond(409, "Email already registered")
            /\ UNCHANGED <<users, classifierVars, interpreterVars, serviceVars>>
       ELSE IF UsernameTaken(users, username)
       THEN /\ ulast' = respond(409, "Username already taken")
            /\ UNCHANGED <<users, classifierVars, interpreterVars, serviceVars>>
       ELSE /\ Len(users) < MaxUsers
            /\ users' = Append(users,
                               [id |-> Len(users) + 1, email |-> email,
                                username |-> username,
                                full_name |-> full_name])
            /\ ulast' = respond(201, "")
            /\ UNCHANGED <<classifierVars, interpreterVars, serviceVars>>

(* ---------------------------- order service ---------------------------- *)

\* orders  the rows of the orders table, in insertion order
\* olast   the most recent request to the order service and its response
\* Prices are in hundredths; an Optional field is <<>> for None and <<v>>
\* for the value v.
None == <<>>
Some(v) == <<v>>

\* quantity above which validate_quantity raises
MaxQuantity == 1000

OrderStatus ==
    {"pending", "confirmed", "processing", "shipped", "delivered",
     "cancelled"}

\* OrderCreate.validate_quantity without its upper limit
ValidateQuantityNoLimit(v) == ~(v <= 0)

\* OrderCreate.validate_quantity: whether it returns
ValidateQuantity(v) ==
    /\ ~(v <= 0)
    /\ ~(v > MaxQuantity)

\* OrderCreate.validate_price: whether it returns
ValidatePrice(v) == ~(v <= 0)

\* the truth value of an Optional[int] and of an Optional[str]
TruthyInt(v) == v # None /\ v[1] # 0
TruthyStr(v) == v # None /\ v[1] # ""

\* the body of a create request and of an update request
OrderData(user_id, product_name, quantity, unit_price, shipping_address) ==
    [user_id |-> user_id, product_name |-> product_name,
     quantity |-> quantity, unit_price |-> unit_price,
     shipping_address |-> shipping_address]
OrderUpdate(status, quantity, shipping_address) ==
    [status |-> status, quantity |-> quantity,
     shipping_address |-> shipping_address]
NoOrderData == OrderData(0, "", 0, 0, "")

\* OrderResponse(...) of a row: the status by its value, created_at kept
OrderResponse(order) ==
    [id |-> order.id, user_id |-> order.user_id,
     product_name |-> order.product_name, quantity |-> order.quantity,
     unit_price |-> order.unit_price, total_price |-> order.total_price,
     status |-> order.status, shipping_address |-> order.shipping_address,
     created_at |-> order.created_at]
NoOrderBody ==
    [id |-> 0, user_id |-> 0, product_name |-> "", quantity |-> 0,
     unit_price |-> 0, total_price |-> 0, status |-> "",
     shipping_address |-> "", created_at |-> 0]

NoOrderRequest ==
    [op |-> "none", order_id |-> 0, status |-> 0, request |-> NoOrderData,
     body |-> NoOrderBody]

\* the table after init_db on a fresh database
OrderInit ==
    /\ orders = <<>>
    /\ olast = NoOrderRequest

\* the id the table gives the next row: one more than the largest stored
RECURSIVE MaxId(_, _)
MaxId(rows, k) ==
    IF k = 0 THEN 0
    ELSE LET m == MaxId(rows, k - 1)
         IN IF rows[k].id > m THEN rows[k].id ELSE m
NextId(rows) == MaxId(rows, Len(rows)) + 1

\* .first() of the query without its filter: the first row stored
OrderIndexUnfiltered(rows, order_id) == IF Len(rows) > 0 THEN 1 ELSE 0

\* db.query(Order).filter(Order.id == order_id).first(): the index of the
\* row, 0 for None
OrderIndex(rows, order_id) ==
    IF \E k \in 1..Len(rows) : rows[k].id = order_id
    THEN CHOOSE k \in 1..Len(rows) : rows[k].id = order_id
    ELSE 0

\* db.commit() after the assignments that turned the loaded row old into
\* new: no UPDATE is sent when no column differs, and an UPDATE sets
\* updated_at (onupdate) to the clock's reading t
Flush(old, new, t) ==
    IF new = old THEN old ELSE [new EXCEPT !.updated_at = t]

\* POST /api/orders: the request validation of OrderCreate, then
\* create_order; created_at and updated_at are the clock's reading t
CreateOrder(order_data, t) ==
    /\ LET respond(status, body) ==
               [op |-> "create_order", order_id |-> 0, status |-> status,
                request |-> order_data, body |-> body]
           new_order ==
               [id |-> NextId(orders), user_id |-> order_data.user_id,
                product_name |-> order_data.product_name,
                quantity |-> order_data.quantity,
                unit_price |-> order_data.unit_price,
                total_price |-> order_data.quantity * order_data.unit_price,
                status |-> "pending",
                shipping_address |-> order_data.shipping_address,
                created_at |-> t, updated_at |-> t]
       IN IF ~(ValidateQuantity(order_data.quantity)
                 /\ ValidatePrice(order_data.unit_price))
          THEN /\ olast' = respond(422, NoOrderBody)
               /\ UNCHANGED orders
          ELSE /\ Len(orders) < MaxOrders
               /\ orders' = Append(orders, new_order)
               /\ olast' = respond(201, OrderResponse(new_order))
    /\ UNCHANGED <<classifierVars, interpreterVars, userVars, paymentVars,
                 metricsVars>>

\* GET /api/orders/{order_id}
GetOrder(order_id) ==
    /\ LET k == OrderIndex(orders, order_id)
           respond(status, body) ==
               [op |-> "get_order", order_id |-> order_id, status |-> status,
                request |-> NoOrderData, body |-> body]
       IN /\ olast' = IF k = 0 THEN respond(404, NoOrderBody)
                      ELSE respond(200, OrderResponse(orders[k]))
          /\ UNCHANGED orders
    /\ UNCHANGED <<classifierVars, interpreterVars, userVars, paymentVars,
                 metricsVars>>

\* order.quantity = order_update.quantity alone
SetQuantityOnly(order, quantity) == [order EXCEPT !.quantity = quantity]

\* order.quantity = order_update.quantity
\* order.total_price = order.quantity * order.unit_price
SetQuantity(order, quantity) ==
    [order EXCEPT !.quantity = quantity,
                  !.total_price = quantity * order.unit_price]

\* the assignments of update_order to the loaded row
Updated(order, order_update) ==
    LET a == IF order_update.status # None
             THEN [order EXCEPT !.status = order_update.status[1]]
             ELSE order
        b == IF TruthyInt(order_update.quantity)
             THEN SetQuantity(a, order_update.quantity[1])
             ELSE a
    IN IF TruthyStr(order_update.shipping_address)
       THEN [b EXCEPT !.shipping_address = order_update.shipping_address[1]]
       ELSE b

\* PUT /api/orders/{order_id}
UpdateOrder(order_id, order_update, t) ==
    /\ LET k == OrderIndex(orders, order_id)
           respond(status, body) ==
               [op |-> "update_order", order_id |-> order_id,
                status |-> status, request |-> NoOrderData, body |-> body]
       IN IF k = 0
          THEN /\ olast' = respond(404, NoOrderBody)
               /\ UNCHANGED orders
          ELSE LET order == Flush(orders[k], Updated(orders[k], order_update), t)
               IN /\ orders' = [orders EXCEPT ![k] = order]
                  /\ olast' = respond(200, OrderResponse(order))
    /\ UNCHANGED <<classifierVars, interpreterVars, userVars, paymentVars,
                 metricsVars>>

\* db.delete(order) in place of the status assignment
CancelledDeleted(rows, k, t) ==
    [j \in 1..(Len(rows) - 1) |-> IF j < k THEN rows[j] ELSE rows[j + 1]]

\* order.status = OrderStatus.CANCELLED and db.commit() on row k
Cancelled(rows, k, t) ==
    [rows EXCEPT ![k] = Flush(rows[k], [rows[k] EXCEPT !.status = "cancelled"],
                              t)]

\* DELETE /api/orders/{order_id}
CancelOrder(order_id, t) ==
    /\ LET k == OrderIndex(orders, order_id)
           respond(status) ==
               [op |-> "cancel_order", order_id |-> order_id,
                status |-> status, request |-> NoOrderData,
                body |-> NoOrderBody]
       IN IF k = 0
          THEN /\ olast' = respond(404)
               /\ UNCHANGED orders
          ELSE /\ orders' = Cancelled(orders, k, t)
               /\ olast' = respond(204)
    /\ UNCHANGED <<classifierVars, interpreterVars, userVars, paymentVars,
                 metricsVars>>

\* the requests the order service is sent: create requests, the ids that
\* requests name, update requests of the quantity and the address, and
\* update requests of the status
OrderQuantities == {0, 1, MaxQuantity, MaxQuantity + 1}
UnitPrices == {0, 2999}
OrderIds == 1..(MaxOrders + 1)
OrderUpdates ==
    {OrderUpdate(None, quantity, shipping_address) :
        quantity \in {None, Some(0), Some(-1), Some(MaxQuantity)},
        shipping_address \in {None, Some("456 Test Ave")}}
StatusUpdates ==
    {OrderUpdate(status, None, None) :
        status \in {None, Some("shipped"), Some("delivered")}}

\* the readings of a clock (datetime.utcnow(), time.time(),
\* datetime.now()): any, and those of a clock that stands still
Times == {0, 1}
StillClock == {0}

(* --------------------------- payment service --------------------------- *)

\* payments  the rows of the payments table, in insertion order
\* plast     the request the payment service is handling or has handled
\*           last: pc is "stored" while process_payment is between its two
\*           commits, and the response is in status and body once pc is
\*           "idle"
\* Amounts are in hundredths.  A card number is a sequence of characters.
PaymentMethod ==
    {"credit_card", "debit_card", "paypal", "cryptocurrency",
     "bank_transfer"}

PaymentStatus ==
    {"pending", "processing", "completed", "failed", "refunded",
     "cancelled"}

\* amount above which validate_amount raises, 1000000
MaxAmount == 100000000

\* PaymentCreate.validate_amount: whether it returns
ValidateAmount(v) ==
    /\ ~(v <= 0)
    /\ ~(v > MaxAmount)

\* v.replace(' ', '').replace('-', '')
RECURSIVE CleanNumber(_)
CleanNumber(v) ==
    IF v = <<>> THEN <<>>
    ELSE IF Head(v) \in {" ", "-"} THEN CleanNumber(Tail(v))
    ELSE <<Head(v)>> \o CleanNumber(Tail(v))

\* v.isdigit()
IsDigit(v) == Len(v) > 0 /\ \A k \in 1..Len(v) : v[k] \in DigitChars

\* PaymentCreate.validate_card_number on a card number that the request
\* carries (None for null): ok tells whether it returns, v what it returns
ValidateCardNumber(v, payment_method) ==
    IF payment_method \in {"credit_card", "debit_card"}
    THEN IF v = None \/ v[1] = <<>>
         THEN [ok |-> FALSE, v |-> v]
         ELSE LET clean == CleanNumber(v[1])
              IN [ok |-> IsDigit(clean) /\ ~(Len(clean) < 13 \/ Len(clean) > 19),
                  v |-> Some(clean)]
    ELSE [ok |-> TRUE, v |-> v]

\* get_card_last_four
GetCardLastFour(card_number) ==
    IF card_number # None /\ card_number[1] # <<>>
    THEN LET clean_number == CleanNumber(card_number[1])
         IN IF Len(clean_number) >= 4
            THEN Some(SubSeq(clean_number, Len(clean_number) - 3,
                             Len(clean_number)))
            ELSE None
    ELSE None

\* the body of a payment request
PaymentCreate(order_id, user_id, amount, payment_method, card_number) ==
    [order_id |-> order_id, user_id |-> user_id, amount |-> amount,
     payment_method |-> payment_method, card_number |-> card_number]
NoPaymentData == PaymentCreate(0, 0, 0, "", None)

\* A gateway response is the sequence of the pieces of its text.
\* f"Refunded: {refund_data.reason}"
Refunded(reason) == <<"Refunded: ", reason>>

\* what simulate_payment_processing can return
GatewayFailures ==
    {"Insufficient funds", "Card declined", "Payment gateway timeout",
     "Invalid card details", "Daily limit exceeded"}
SimulatePaymentProcessing ==
    {<<TRUE, <<"Payment processed successfully">>>>}
        \cup {<<FALSE, <<failure>>>> : failure \in GatewayFailures}

\* PaymentResponse(...) of a row
PaymentResponse(payment) ==
    [id |-> payment.id, order_id |-> payment.order_id,
     user_id |-> payment.user_id, amount |-> payment.amount,
     payment_method |-> payment.payment_method, status |-> payment.status,
     transaction_id |-> payment.transaction_id,
     card_last_four |-> payment.card_last_four,
     created_at |-> payment.created_at]
NoPaymentBody ==
    [id |-> 0, order_id |-> 0, user_id |-> 0, amount |-> 0,
     payment_method |-> "", status |-> "", transaction_id |-> 0,
     card_last_four |-> None, created_at |-> 0]

NoPaymentRequest ==
    [op |-> "none", pc |-> "idle", payment_id |-> 0, status |-> 0,
     request |-> NoPaymentData, body |-> NoPaymentBody]

\* the table after init_db on a fresh database
PaymentInit ==
    /\ payments = <<>>
    /\ plast = NoPaymentRequest

\* .first() of the query without its filter: the first row stored
PaymentIndexUnfiltered(rows, payment_id) == IF Len(rows) > 0 THEN 1 ELSE 0

\* db.query(Payment).filter(Payment.id == payment_id).first(): the index
\* of the row, 0 for None
PaymentIndex(rows, payment_id) ==
    IF \E k \in 1..Len(rows) : rows[k].id = payment_id
    THEN CHOOSE k \in 1..Len(rows) : rows[k].id = payment_id
    ELSE 0

\* Payment(...) without status=, the column taking its default
NewPaymentDefaultStatus(payment_data, card_number, id, t) ==
    [id |-> id, order_id |-> payment_data.order_id,
     user_id |-> payment_data.user_id, amount |-> payment_data.amount,
     payment_method |-> payment_data.payment_method,
     transaction_id |-> id,
     card_last_four |-> GetCardLastFour(card_number),
     status |-> "pending", payment_gateway_response |-> None,
     created_at |-> t, updated_at |-> t]

\* Payment(...) of process_payment as the first commit stores it.  The
\* transaction ids uuid4 gives are pairwise distinct: the row's is written
\* as the number of the row.
NewPayment(payment_data, card_number, id, t) ==
    [id |-> id, order_id |-> payment_data.order_id,
     user_id |-> payment_data.user_id, amount |-> payment_data.amount,
     payment_method |-> payment_data.payment_method,
     transaction_id |-> id,
     card_last_four |-> GetCardLastFour(card_number),
     status |-> "processing", payment_gateway_response |-> None,
     created_at |-> t, updated_at |-> t]

\* POST /api/payments up to its first commit: the request validation of
\* PaymentCreate, then the new row
ProcessPayment(payment_data, t) ==
    /\ LET card == ValidateCardNumber(payment_data.card_number,
                                      payment_data.payment_method)
           respond(pc, payment_id, status) ==
               [op |-> "process_payment", pc |-> pc, payment_id |-> payment_id,
                status |-> status, request |-> payment_data,
                body |-> NoPaymentBody]
       IN /\ plast.pc = "idle"
          /\ IF ~(ValidateAmount(payment_data.amount) /\ card.ok)
             THEN /\ plast' = respond("idle", 0, 422)
                  /\ UNCHANGED payments
             ELSE /\ Len(payments) < MaxPayments
                  /\ payments' =
                        Append(payments,
                               NewPayment(payment_data, card.v,
                                          NextId(payments), t))
                  /\ plast' = respond("stored", NextId(payments), 0)
    /\ UNCHANGED <<classifierVars, interpreterVars, userVars, orderVars,
                 metricsVars>>

\* the status assignment of process_payment that leaves a failed payment
\* as it is
SettledSuccessOnly(payment, success, response_message) ==
    IF success
    THEN [payment EXCEPT !.status = "completed",
                         !.payment_gateway_response = Some(response_message)]
    ELSE payment

\* new_payment.status and new_payment.payment_gateway_response after the
\* gateway answered
Settled(payment, success, response_message) ==
    IF success
    THEN [payment EXCEPT !.status = "completed",
                         !.payment_gateway_response = Some(response_message)]
    ELSE [payment EXCEPT !.status = "failed",
                         !.payment_gateway_response = Some(response_message)]

\* POST /api/payments from simulate_payment_processing on: the second
\* commit, then the response, 402 with the payment in its detail when the
\* gateway failed
SettlePayment(success, response_message, t) ==
    /\ LET k == PaymentIndex(payments, plast.payment_id)
           new_payment ==
               Flush(payments[k],
                     Settled(payments[k], success, response_message), t)
       IN /\ plast.pc = "stored"
          /\ payments' = [payments EXCEPT ![k] = new_payment]
          /\ plast' = [plast EXCEPT !.pc = "idle",
                                    !.status = IF success THEN 201 ELSE 402,
                                    !.body = PaymentResponse(new_payment)]
    /\ UNCHANGED <<classifierVars, interpreterVars, userVars, orderVars,
                 metricsVars>>

\* GET /api/payments/{payment_id}
GetPayment(payment_id) ==
    /\ LET k == PaymentIndex(payments, payment_id)
           respond(status, body) ==
               [op |-> "get_payment", pc |-> "idle", payment_id |-> payment_id,
                status |-> status, request |-> NoPaymentData, body |-> body]
       IN /\ plast.pc = "idle"
          /\ plast' = IF k = 0 THEN respond(404, NoPaymentBody)
                      ELSE respond(200, PaymentResponse(payments[k]))
          /\ UNCHANGED payments
    /\ UNCHANGED <<classifierVars, interpreterVars, userVars, orderVars,
                 metricsVars>>

\* the status test of refund_payment letting every payment through
RefundableAlways(payment) == TRUE

\* not (payment.status != PaymentStatus.COMPLETED)
Refundable(payment) == ~(payment.status # "completed")

\* POST /api/payments/{payment_id}/refund
RefundPayment(payment_id, reason, t) ==
    /\ LET k == PaymentIndex(payments, payment_id)
           respond(status, body) ==
               [op |-> "refund_payment", pc |-> "idle",
                payment_id |-> payment_id, status |-> status,
                request |-> NoPaymentData, body |-> body]
       IN /\ plast.pc = "idle"
          /\ IF k = 0
             THEN /\ plast' = respond(404, NoPaymentBody)
                  /\ UNCHANGED payments
             ELSE IF ~Refundable(payments[k])
             THEN /\ plast' = respond(400, NoPaymentBody)
                  /\ UNCHANGED payments
             ELSE LET payment ==
                          Flush(payments[k],
                                [payments[k] EXCEPT
                                    !.status = "refunded",
                                    !.payment_gateway_response =
                                        Some(Refunded(reason))],
                                t)
                  IN /\ payments' = [payments EXCEPT ![k] = payment]
                     /\ plast' = respond(200, PaymentResponse(payment))
    /\ UNCHANGED <<classifierVars, interpreterVars, userVars, orderVars,
                 metricsVars>>

\* "4111111111111111", "4111 1111 1111 1111", "4111" and "4111-abcd"
CardNumber == [k \in 1..16 |-> IF k = 1 THEN "4" ELSE "1"]
CardNumberSpaced ==
    [k \in 1..19 |-> IF k = 1 THEN "4" ELSE IF k \in {5, 10, 15} THEN " "
                     ELSE "1"]
CardNumberShort == <<"4", "1", "1", "1">>
CardNumberLetters == <<"4", "1", "1", "1", "-", "a", "b", "c", "d">>

\* the requests the payment service is sent
PaymentRequests ==
    {PaymentCreate(1, 1, amount, "credit_card", Some(card_number)) :
        amount \in {-5000, 9999, MaxAmount + 1},
        card_number \in {CardNumber, CardNumberSpaced, CardNumberShort,
                         CardNumberLetters}}
        \cup {PaymentCreate(1, 1, 7550, "paypal", None),
              PaymentCreate(1, 1, 9999, "credit_card", None)}
PaymentIds == 1..(MaxPayments + 1)

(* -------------------------- MetricsCollector --------------------------- *)

\* start_time  self.start_time, None or the reading the timer started at
\* timestamps  self.timestamps, each entry a function from its keys
\* mcalls      the start_timer and stop_timer calls made so far, in order
\* mlast       the most recent call and what it returned
\* The readings of time.time() and of datetime.now() are whole numbers; an
\* isoformat string is written as the reading it formats.

Labels == {"operation", "test_generation"}

NoTimerCall == [op |-> "none", result |-> None]

\* MetricsCollector.__init__
MetricsInit ==
    /\ start_time = None
    /\ timestamps = <<>>
    /\ mcalls = <<>>
    /\ mlast = NoTimerCall

\* d[key] = value
SetItem(d, key, value) ==
    [x \in DOMAIN d \cup {key} |-> IF x = key THEN value ELSE d[x]]

\* start_timer(label), time.time() reading t and datetime.now() reading d
StartTimer(label, t, d) ==
    /\ /\ Len(mcalls) < MaxTimerCalls
       /\ start_time' = Some(t)
       /\ timestamps' = Append(timestamps,
                               [label |-> label, start |-> d, start_time |-> t])
       /\ mcalls' = Append(mcalls, "start_timer")
       /\ mlast' = [op |-> "start_timer", result |-> None]
    /\ UNCHANGED <<classifierVars, interpreterVars, userVars, orderVars,
                 paymentVars>>

\* self.timestamps[-1]["end"] = ...; self.timestamps[-1]["duration"] = ...
Stopped(entries, d, elapsed) ==
    [entries EXCEPT
        ![Len(entries)] =
            SetItem(SetItem(entries[Len(entries)], "end", d),
                    "duration", elapsed)]

\* stop_timer(), time.time() reading t and datetime.now() reading d
StopTimer(t, d) ==
    /\ /\ Len(mcalls) < MaxTimerCalls
       /\ mcalls' = Append(mcalls, "stop_timer")
       /\ IF start_time = None
          THEN /\ mlast' = [op |-> "stop_timer", result |-> Some(0)]
               /\ UNCHANGED <<start_time, timestamps>>
          ELSE LET elapsed == t - start_time[1]
               IN /\ timestamps' = IF timestamps # <<>>
                                   THEN Stopped(timestamps, d, elapsed)
                                   ELSE timestamps
                  /\ start_time' = None
                  /\ mlast' = [op |-> "stop_timer", result |-> Some(elapsed)]
    /\ UNCHANGED <<classifierVars, interpreterVars, userVars, orderVars,
                 paymentVars>>

(* --------------------------- specifications ---------------------------- *)

Init ==
    /\ ClassifierInit
    /\ InterpreterInit
    /\ UserInit
    /\ OrderInit
    /\ PaymentInit
    /\ MetricsInit

\* classify and get_statistics on the BugClassifier instances
Next ==
    \E i \in Instances :
        \/ \E endpoint \in Endpoints :
               \/ \E response \in HistResponses :
                      Classify(i, endpoint, response)
               \/ ClassifyModelRaises(i, endpoint)
        \/ GetStatistics(i)

Spec == Init /\ [][Next]_vars

\* one classify call on a fresh instance, over every response
ParseNext ==
    /\ last = NoCall
    /\ \E response \in Responses : Classify(1, "/api/orders", response)

ParseSpec == Init /\ [][ParseNext]_vars

\* classify and classify_batch on one instance
BatchNext ==
    \/ \E endpoint \in Endpoints :
           \/ \E response \in HistResponses : Classify(1, endpoint, response)
           \/ ClassifyModelRaises(1, endpoint)
    \/ \E bugs \in SeqsUpTo(Bugs, MaxBatch) :
           \E answers \in [1..Len(bugs) -> Answers] :
               ClassifyBatch(1, bugs, answers)

BatchSpec == Init /\ [][BatchNext]_vars

\* one interpret call on a fresh LogInterpreter, over every response
IParseNext ==
    /\ ilast = NoInterpret
    /\ \E response \in InterpreterResponses :
           Interpret(Log(3), "order-service", response)

IParseSpec == Init /\ [][IParseNext]_vars

\* interpret and get_statistics on one LogInterpreter
InterpNext ==
    \/ \E error_log \in ErrorLogs, service_name \in Services :
           \/ \E response \in InterpreterHistResponses :
                  Interpret(error_log, service_name, response)
           \/ InterpretModelRaises(error_log, service_name)
    \/ InterpreterGetStatistics

InterpSpec == Init /\ [][InterpNext]_vars

\* register requests to the user service
UserNext ==
    \E email \in Emails, username \in Usernames, password \in Passwords :
        RegisterUser(email, username, password, FullName)

UserSpec == Init /\ [][UserNext]_vars

\* requests to the order service that create, read, cancel and change the
\* quantity and the address of orders, the clock standing still
OrderNext ==
    \/ \E quantity \in OrderQuantities, unit_price \in UnitPrices,
          t \in StillClock :
           CreateOrder(OrderData(1, "Test Product", quantity, unit_price,
                                 "123 Test St"), t)
    \/ \E order_id \in OrderIds : GetOrder(order_id)
    \/ \E order_id \in OrderIds, order_update \in OrderUpdates,
          t \in StillClock :
           UpdateOrder(order_id, order_update, t)
    \/ \E order_id \in OrderIds, t \in StillClock : CancelOrder(order_id, t)

OrderSpec == Init /\ [][OrderNext]_vars

\* requests to the order service that create, read, cancel and change the
\* status of orders
CancelNext ==
    \/ \E quantity \in {0, 1}, t \in Times :
           CreateOrder(OrderData(1, "Test Product", quantity, 2999,
                                 "123 Test St"), t)
    \/ \E order_id \in OrderIds : GetOrder(order_id)
    \/ \E order_id \in OrderIds, order_update \in StatusUpdates,
          t \in Times :
           UpdateOrder(order_id, order_update, t)
    \/ \E order_id \in OrderIds, t \in Times : CancelOrder(order_id, t)

CancelSpec == Init /\ [][CancelNext]_vars

\* requests to the payment service and the gateway's answers, the clock
\* standing still
PaymentNext ==
    \/ \E payment_data \in PaymentRequests, t \in StillClock :
           ProcessPayment(payment_data, t)
    \/ \E outcome \in SimulatePaymentProcessing, t \in StillClock :
           SettlePayment(outcome[1], outcome[2], t)
    \/ \E payment_id \in PaymentIds : GetPayment(payment_id)
    \/ \E payment_id \in PaymentIds, t \in StillClock :
           RefundPayment(payment_id, "Customer request", t)

PaymentSpec == Init /\ [][PaymentNext]_vars

\* create, read and cancel requests to the order service, and payment,
\* read and refund requests to the payment service, the gateway declining
\* the card when it fails
GetNext ==
    \/ \E quantity \in {0, 1}, t \in StillClock :
           CreateOrder(OrderData(1, "Test Product", quantity, 1999,
                                 "456 Test Ave"), t)
    \/ \E order_id \in OrderIds : GetOrder(order_id)
    \/ \E order_id \in OrderIds, t \in StillClock : CancelOrder(order_id, t)
    \/ \E amount \in {-5000, 7550}, t \in StillClock :
           ProcessPayment(PaymentCreate(1, 1, amount, "paypal", None), t)
    \/ \E outcome \in SimulatePaymentProcessing, t \in StillClock :
           /\ outcome[1] \/ outcome[2] = <<"Card declined">>
           /\ SettlePayment(outcome[1], outcome[2], t)
    \/ \E payment_id \in PaymentIds : GetPayment(payment_id)
    \/ \E payment_id \in PaymentIds, t \in StillClock :
           RefundPayment(payment_id, "Customer request", t)

GetSpec == Init /\ [][GetNext]_vars

\* start_timer and stop_timer calls on one MetricsCollector
MetricsNext ==
    \/ \E label \in Labels, t \in Times, d \in Times : StartTimer(label, t, d)
    \/ \E t \in Times, d \in Times : StopTimer(t, d)

MetricsSpec == Init /\ [][MetricsNext]_vars

(* ------------------------------ properties ---------------------------- *)

Returned == last.outcome = "returned"

\* every classification in a history, and the one the last call returned
Results ==
    UNION {{history[i][n]["classification"] : n \in 1..Len(history[i])} :
              i \in Instances}
        \cup (IF Returned THEN {last.result} ELSE {})

\* the last response is one JSON object and nothing else
OneObject == Len(last.response) = 1 /\ last.response[1].k = "obj"
Supplied == last.response[1].m

\* a score of a result, an absent one counted as the 5 that the code's
\* dict.get(key, 5) reads
ScoreOr5(r, key) == IF r[key].t = "absent" THEN 500 ELSE r[key].n

\* C1: every classification returned or stored has weighted_score equal to
\* 0.5*impact_score + 0.3*frequency_score + 0.2*recovery_score of its own
\* final sub-scores (a sub-score the result lacks counts as 5), whatever
\* weighted_score the model supplied.
C1_WeightedScoreFromFinalScores ==
    \A r \in Results :
        /\ r["weighted_score"].t = "num"
        /\ \A key \in ScoreKeys : r[key].t \in {"absent", "num"}
        /\ 10 * r["weighted_score"].n =
              5 * ScoreOr5(r, "impact_score")
                + 3 * ScoreOr5(r, "frequency_score")
                + 2 * ScoreOr5(r, "recovery_score")

\* supplied 9, 20, -3 and weighted_score 99 give 9, 10, 0 and 7.5
C1_Witness ==
    /\ Returned
    /\ last.response = <<Obj(FullMem)>>
    /\ last.result["impact_score"] = Num(900)
    /\ last.result["frequency_score"] = Num(1000)
    /\ last.result["recovery_score"] = Num(0)
    /\ last.result["weighted_score"] = Num(750)
    /\ history[1][1]["classification"]["weighted_score"] = Num(750)

\* C2: every sub-score of a returned result lies in [0,10]; a supplied
\* number below 0 becomes 0, above 10 becomes 10, in range is unchanged.
C2_ScoresClamped ==
    /\ \A r \in Results : \A key \in ScoreKeys :
          \/ r[key].t = "absent"
          \/ r[key].t = "num" /\ 0 <= r[key].n /\ r[key].n <= 1000
    /\ (Returned /\ OneObject) =>
          \A key \in ScoreKeys :
              LET v == Supplied[key]
              IN v.t = "num" =>
                    last.result[key] =
                        Num(IF v.n < 0 THEN 0
                            ELSE IF v.n > 1000 THEN 1000 ELSE v.n)

C2_Witness ==
    /\ Returned
    /\ OneObject
    /\ Supplied["impact_score"] = Num(0 - 100 * MaxMag)
    /\ last.result["impact_score"] = Num(0)
    /\ Supplied["frequency_score"] = Num(750)
    /\ last.result["frequency_score"] = Num(750)
    /\ Supplied["recovery_score"] = Num(2000)
    /\ last.result["recovery_score"] = Num(1000)

\* C3: every classification returned or stored has one of the four
\* severities; a supplied severity among them is kept, any other (absent,
\* "critical", "Blocker", null) is replaced by "Medium".
C3_SeverityValid ==
    /\ \A r \in Results :
          /\ r["severity"].t = "str"
          /\ r["severity"].s \in {Critical, High, Medium, Low}
    /\ (Returned /\ OneObject) =>
          LET v == Supplied["severity"]
          IN IF v.t = "str" /\ v.s \in {Critical, High, Medium, Low}
             THEN last.result["severity"] = v
             ELSE last.result["severity"] = Str(Medium)

C3_Witness ==
    /\ Returned
    /\ OneObject
    /\ Supplied["severity"] = Str(<<"c","r","i","t","i","c","a","l">>)
    /\ last.result["severity"] = Str(Medium)

\* C4: whatever text the model answered, classify returns a result and
\* appends it to the history (it does not raise).
C4_NeverRaisesOnContent ==
    last.outcome \notin {"none", "ModelError"} =>
        /\ Returned
        /\ history[last.inst] # <<>>
        /\ history[last.inst][Len(history[last.inst])]["classification"]
              = last.result

\* C5: a returned result has all six fields, its three sub-scores numbers
\* in [0,10], also when the decoded object omits keys.
C5_AllSixFields ==
    Returned =>
        /\ \A key \in Keys : last.result[key].t # "absent"
        /\ \A key \in ScoreKeys :
              /\ last.result[key].t = "num"
              /\ 0 <= last.result[key].n
              /\ last.result[key].n <= 1000

\* the pattern locates a brace-delimited fragment that does not decode
MalformedObject ==
    LET json_match == ReSearch(Chunks(last.response))
    IN /\ last.outcome # "none"
       /\ json_match.found
       /\ ~JsonLoads(json_match.inner).ok

HasKeyword(kw) == Contains(kw, Lower(Text(last.response)))

AllFive(r) == \A key \in ScoreKeys : r[key] = Num(500)

\* C6 as claimed: a malformed brace-delimited object falls back to keyword
\* search, so one with the word "critical" yields Critical, 5/5/5 and
\* "Parsed from unstructured response".
C6_MalformedFallsBackToKeywords ==
    (MalformedObject /\ HasKeyword(KwCritical)) =>
        /\ Returned
        /\ last.result["severity"] = Str(Critical)
        /\ AllFive(last.result)
        /\ last.result["reasoning"] = Str(ParsedReasoning)

\* C6 amended: a malformed brace-delimited object is not searched for
\* keywords: even with "critical", "high" or "low" in the text the result
\* is Medium, 5/5/5, "Default classification due to parsing error".
C6_MalformedIgnoresKeywords ==
    (MalformedObject
        /\ (HasKeyword(KwCritical) \/ HasKeyword(KwHigh) \/ HasKeyword(KwLow)))
    => /\ Returned
       /\ last.result["severity"] = Str(Medium)
       /\ AllFive(last.result)
       /\ last.result["reasoning"] = Str(DefaultReasoning)

\* "{CRITICAL}"
C6_Witness ==
    /\ last.response = <<LB, Word(<<"C","R","I","T","I","C","A","L">>), RB>>
    /\ Returned
    /\ last.result["severity"] = Str(Medium)
    /\ last.result["reasoning"] = Str(DefaultReasoning)

\* C7: when decoding the located fragment raises a decode error, classify
\* returns Medium, 5/5/5, weighted_score 5.0, "Default classification due
\* to parsing error".
C7_DecodeErrorGivesDefault ==
    MalformedObject =>
        /\ Returned
        /\ last.result =
              [severity |-> Str(Medium),
               impact_score |-> Num(500),
               frequency_score |-> Num(500),
               recovery_score |-> Num(500),
               weighted_score |-> Num(500),
               reasoning |-> Str(DefaultReasoning)]

\* "{ok}"
C7_Witness ==
    /\ last.response = <<LB, Word(<<"o","k">>), RB>>
    /\ Returned
    /\ last.result["reasoning"] = Str(DefaultReasoning)
    /\ last.result["weighted_score"] = Num(500)

\* the pattern locates no brace-delimited fragment
NoObject ==
    /\ last.outcome # "none"
    /\ ~ReSearch(Chunks(last.response)).found

\* C8: with no brace-delimited object the severity is Critical if the
\* lowercased text contains "critical", else High if "high", else Low if
\* "low", else Medium; scores 5/5/5, weighted_score 5.0, reasoning "Parsed
\* from unstructured response".
C8_KeywordPrecedence ==
    NoObject =>
        /\ Returned
        /\ last.result["severity"] =
              Str(IF HasKeyword(<<"c","r","i","t","i","c","a","l">>)
                  THEN Critical
                  ELSE IF HasKeyword(<<"h","i","g","h">>) THEN High
                  ELSE IF HasKeyword(<<"l","o","w">>) THEN Low
                  ELSE Medium)
        /\ AllFive(last.result)
        /\ last.result["weighted_score"] = Num(500)
        /\ last.result["reasoning"] = Str(ParsedReasoning)

\* "below" then "High": both low and high occur, High wins
C8_Witness ==
    /\ last.response = <<Word(<<"b","e","l","o","w">>), Word(High)>>
    /\ Returned
    /\ last.result["severity"] = Str(High)
    /\ last.result["reasoning"] = Str(ParsedReasoning)

\* the response holds one well-formed JSON object, which may have braces
\* inside a string value, and around it only brace-free text
WellFormedObjectIn(response) ==
    /\ Cardinality({i \in 1..Len(response) :
                       response[i].k \in {"obj", "objbrace"}}) = 1
    /\ \A i \in 1..Len(response) :
          response[i].k \in {"obj", "objbrace", "word", "ws"}

TheObject(response) ==
    response[CHOOSE i \in 1..Len(response) :
                response[i].k \in {"obj", "objbrace"}].m

\* C9: the severity and sub-scores of the result are those decoded from
\* the well-formed object of the response (validated and clamped), not the
\* keyword-fallback or default values.
C9_DecodedObjectUsed ==
    (Returned /\ WellFormedObjectIn(last.response)) =>
        LET m == TheObject(last.response)
        IN /\ last.result["severity"] =
                 (IF m["severity"].t = "str" /\ m["severity"].s \in ValidSeverities
                  THEN m["severity"] ELSE Str(Medium))
           /\ \A key \in ScoreKeys :
                 m[key].t = "num" =>
                    last.result[key] =
                        Num(IF m[key].n < 0 THEN 0
                            ELSE IF m[key].n > 1000 THEN 1000 ELSE m[key].n)
           /\ last.result["reasoning"] \notin
                 {Str(ParsedReasoning), Str(DefaultReasoning)}

\* C10: each history holds one entry per returned call, in call order; a
\* step either appends, to the calling instance's history alone, the pair
\* of the call's endpoint and the classification it returned, or leaves
\* every history as it was.
C10_HistoryAppendOnly ==
    /\ [](\A i \in Instances : Len(history[i]) = calls[i])
    /\ [][\A i \in Instances :
            \/ /\ history'[i] = history[i]
               /\ calls'[i] = calls[i]
            \/ /\ last'.inst = i
               /\ last'.outcome = "returned"
               /\ calls'[i] = calls[i] + 1
               /\ history'[i] =
                     history[i] \o <<[endpoint |-> last'.endpoint,
                                      classification |-> last'.result]>>]_vars

\* two different entries on instance 1, in call order, none on instance 2
C10_Witness ==
    /\ Len(history[1]) = 2
    /\ history[1][1]["endpoint"] = "/api/orders"
    /\ history[1][1]["classification"]["severity"] = Str(Critical)
    /\ history[1][2]["endpoint"] = "/api/users/register"
    /\ history[1][2]["classification"]["severity"] = Str(High)
    /\ history[2] = <<>>
    /\ last.inst = 1

\* the prompt classify_batch builds for a record
PromptOf(bug) ==
    BugClassificationPrompt(bug.error_message,
                            IF "test_context" \in bug.keys
                            THEN bug.test_context ELSE "",
                            bug.endpoint)

\* the classification classify returns when the model answers response
ClassificationOf(response) ==
    ValidateClassification(ParseClassification(response).d)

\* C11: a classify_batch call on n records that returns has returned n
\* results, the k-th being the k-th record's keys and values plus a
\* classification key holding the classification of the model's k-th
\* answer; the model received n prompts, the k-th built from the k-th
\* record; and the history of the instance is what it was followed by n
\* entries, the k-th pairing the k-th record's endpoint with the k-th
\* classification.
C11_BatchInInputOrder ==
    [][(batch'.inst # 0 /\ batch'.outcome = "returned") =>
          LET bugs == batch'.bugs
              n == Len(bugs)
              results == batch'.results
              i == batch'.inst
          IN /\ Len(results) = n
             /\ \A k \in 1..n :
                    /\ results[k].keys = bugs[k].keys \cup {"classification"}
                    /\ results[k].error_message = bugs[k].error_message
                    /\ results[k].test_context = bugs[k].test_context
                    /\ results[k].endpoint = bugs[k].endpoint
                    /\ results[k].classification =
                          ClassificationOf(batch'.answers[k].response)
             /\ Len(prompts') = n
             /\ \A k \in 1..n : prompts'[k] = PromptOf(bugs[k])
             /\ Len(history'[i]) = Len(history[i]) + n
             /\ SubSeq(history'[i], 1, Len(history[i])) = history[i]
             /\ \A k \in 1..n :
                    history'[i][Len(history[i]) + k] =
                        [endpoint |-> bugs[k].endpoint,
                         classification |-> results[k].classification]
             /\ \A j \in Instances \ {i} : history'[j] = history[j]]_vars

\* a batch of two records with different endpoints and different
\* classifications has returned
C11_Witness ==
    /\ batch.outcome = "returned"
    /\ Len(batch.bugs) = 2
    /\ batch.bugs[1].endpoint = "/api/users/register"
    /\ batch.bugs[2].endpoint = "/api/orders"
    /\ "test_context" \notin batch.bugs[2].keys
    /\ Len(batch.results) = 2
    /\ batch.results[1].classification["severity"] = Str(Critical)
    /\ batch.results[2].classification["severity"] = Str(High)
    /\ Len(history[1]) = 2

\* the severity and the weighted_score of a history entry
SeverityOf(entry) == entry["classification"]["severity"].s
ScoreOf(entry) == entry["classification"]["weighted_score"].n

\* the sum of the weighted scores of the entries of h
RECURSIVE SumOfScores(_)
SumOfScores(h) ==
    IF h = <<>> THEN 0 ELSE ScoreOf(Head(h)) + SumOfScores(Tail(h))

\* the number of entries of h with the given severity
EntriesWith(h, severity) ==
    Cardinality({k \in 1..Len(h) : SeverityOf(h[k]) = severity})

\* C12: the dict get_statistics returned for an instance has
\* total_classifications equal to the length of the instance's history, a
\* severity_distribution over exactly the severities in the history, each
\* counted as often as it occurs, and an average_weighted_score that is the
\* sum of the entries' weighted scores divided by their number; for an
\* empty history these are 0, the empty table and 0.0.  The step that
\* returns statistics leaves every history as it was.
C12_StatisticsOfHistory ==
    /\ [](stats.inst # 0 =>
            LET h == history[stats.inst]
                table == stats.severity_distribution
                mean == stats.average_weighted_score
            IN /\ stats.total_classifications = Len(h)
               /\ DOMAIN table = {SeverityOf(h[k]) : k \in 1..Len(h)}
               /\ \A severity \in DOMAIN table :
                      table[severity] = EntriesWith(h, severity)
               /\ mean.den > 0
               /\ IF h = <<>>
                  THEN mean.num = 0
                  ELSE mean.num * Len(h) = SumOfScores(h) * mean.den)
    /\ [][stats'.inst # 0 => history' = history /\ calls' = calls]_vars

\* statistics returned over two entries of different severity and score
C12_Witness ==
    /\ stats.inst = 1
    /\ Len(history[1]) = 2
    /\ SeverityOf(history[1][1]) = High
    /\ SeverityOf(history[1][2]) = Critical
    /\ ScoreOf(history[1][1]) # ScoreOf(history[1][2])
    /\ stats.total_classifications = 2
    /\ stats.severity_distribution[High] = 1
    /\ stats.severity_distribution[Critical] = 1
    /\ 2 * stats.average_weighted_score.num =
          (ScoreOf(history[1][1]) + ScoreOf(history[1][2]))
              * stats.average_weighted_score.den

\* C13: a classify call has sent the model one prompt, built from the
\* call's arguments, however the call ended; a call in which the model
\* raised has ended with the model's error, has returned nothing and has
\* left every history as it was.
C13_ModelCalledOnce ==
    [][(batch'.inst = 0 /\ stats'.inst = 0 /\ last'.outcome # "none") =>
          /\ prompts' =
                <<BugClassificationPrompt(ErrorMessage, TestContext,
                                          last'.endpoint)>>
          /\ last'.outcome = "ModelError" =>
                /\ last'.result = EmptyDict
                /\ history' = history
                /\ calls' = calls]_vars

\* the model has raised in a call on an instance that holds an entry
C13_Witness ==
    /\ last.outcome = "ModelError"
    /\ last.inst = 1
    /\ Len(prompts) = 1
    /\ prompts[1].endpoint = last.endpoint
    /\ Len(history[1]) = 1
    /\ batch.inst = 0
    /\ stats.inst = 0

\* the blocks of the last response, and the result of the last call
Blocks == ilast.response.blocks
Interpretation == ilast.result

\* the field a label names
FieldOf(label) ==
    CASE FoldAtom(label[1]) = "root cause:" -> "root_cause"
      [] FoldAtom(label[1]) = "affected components:" -> "affected_components"
      [] FoldAtom(label[1]) = "recommended fix:" -> "recommended_fix"
      [] FoldAtom(label[1]) = "prevention:" -> "prevention"

\* the fields the labelled blocks of the last response name
FieldsLabelled ==
    {FieldOf(Blocks[k].label) :
        k \in {j \in 1..Len(Blocks) : Blocks[j].kind # "text"}}

\* every block of the last response is of the given kind and has a body,
\* and no two blocks name the same field
SectionsOfKind(kind) ==
    /\ \A k \in 1..Len(Blocks) :
           Blocks[k].kind = kind /\ Blocks[k].body # <<>>
    /\ \A j, k \in 1..Len(Blocks) :
           FieldOf(Blocks[j].label) = FieldOf(Blocks[k].label) => j = k

\* C14: when the response is made of bold-labelled Root Cause, Affected
\* Components and Recommended Fix sections, each with text, in any order
\* and under either separator, and has no Prevention section, the result
\* has the empty string as prevention and each section's text as the value
\* of the section's field.
C14_MissingPreventionIsEmpty ==
    (/\ ilast.outcome = "returned"
     /\ SectionsOfKind("bold")
     /\ FieldsLabelled =
           {"root_cause", "affected_components", "recommended_fix"}) =>
        /\ Interpretation["prevention"] = <<>>
        /\ \A k \in 1..Len(Blocks) :
               Interpretation[FieldOf(Blocks[k].label)] = Blocks[k].body

\* "**Affected Components:** pool\n\n**ROOT CAUSE:** db down\n\n
\* **Recommended Fix:** restart it" has been interpreted
C14_Witness ==
    /\ ilast.response =
          Response(<<Bold(AffectedComponentsLabel, Pool),
                     Bold(RootCauseUpper, DbDown),
                     Bold(RecommendedFixLabel, Restart)>>, BlankLine)
    /\ Interpretation["root_cause"] = <<"db", " ", "down">>
    /\ Interpretation["affected_components"] = <<"pool">>
    /\ Interpretation["recommended_fix"] = <<"restart", " ", "it">>
    /\ Interpretation["prevention"] = <<>>

\* the non-empty paragraphs of the last response: its blocks when blank
\* lines separate them, otherwise the response as a whole, stripped, the
\* empty ones left out
ParagraphsWritten ==
    LET stripped ==
            IF ilast.response.sep = BlankLine
            THEN [k \in 1..Len(Blocks) |-> Strip(BlockText(Blocks[k]))]
            ELSE <<Strip(ResponseText(ilast.response))>>
    IN SelectSeq(stripped, LAMBDA paragraph : paragraph # <<>>)

\* the k-th non-empty paragraph of the last response, or the placeholder
ParagraphOr(k, placeholder) ==
    IF k <= Len(ParagraphsWritten) THEN ParagraphsWritten[k] ELSE placeholder

\* C15: when no block of the response carries a Root Cause label, bold or
\* plain, the result's root_cause, affected_components, recommended_fix
\* and prevention are the first, second, third and fourth non-empty
\* paragraph of the response, and where the response has no such paragraph
\* they are "Unable to determine root cause", "Unknown", "Manual
\* investigation required" and "N/A".
C15_FallbackByParagraphs ==
    (/\ ilast.outcome = "returned"
     /\ "root_cause" \notin FieldsLabelled) =>
        /\ Interpretation["root_cause"] =
              ParagraphOr(1, <<"Unable to determine root cause">>)
        /\ Interpretation["affected_components"] =
              ParagraphOr(2, <<"Unknown">>)
        /\ Interpretation["recommended_fix"] =
              ParagraphOr(3, <<"Manual investigation required">>)
        /\ Interpretation["prevention"] = ParagraphOr(4, <<"N/A">>)

\* "db down\n\n \n\npool\n\nrestart it" has been interpreted: three
\* paragraphs around an empty one, and the placeholder for the fourth
C15_Witness ==
    /\ ilast.response =
          Response(<<Para(DbDown), Para(<<" ">>), Para(Pool),
                     Para(Restart)>>, BlankLine)
    /\ Interpretation["root_cause"] = <<"db", " ", "down">>
    /\ Interpretation["affected_components"] = <<"pool">>
    /\ Interpretation["recommended_fix"] = <<"restart", " ", "it">>
    /\ Interpretation["prevention"] = <<"N/A">>

\* C16: when the response is made of plain-labelled sections, each with
\* text, one of them Root Cause, every section's field holds the text that
\* follows the section's label.
C16_PlainLabelsParsed ==
    (/\ ilast.outcome = "returned"
     /\ SectionsOfKind("plain")
     /\ "root_cause" \in FieldsLabelled) =>
        \A k \in 1..Len(Blocks) :
            Interpretation[FieldOf(Blocks[k].label)] = Blocks[k].body

\* C17: when a block of the response carries a Root Cause label, bold or
\* plain, affected_components, recommended_fix and prevention are what the
\* per-section patterns give for the response, whatever follows the Root
\* Cause label.
C17_FallbackOnlyWithoutLabel ==
    (/\ ilast.outcome = "returned"
     /\ "root_cause" \in FieldsLabelled) =>
        \A key \in {"affected_components", "recommended_fix", "prevention"} :
            Interpretation[key] =
                ParseSection(Sections[key], ResponseText(ilast.response))

\* C18: the result of an interpret call carries the service name the call
\* was given and, as original_log, the first 500 characters of the error
\* log it was given, all of it when it has no more than 500; the one
\* prompt the model received carries the service name and the whole log.
C18_LogTruncatedPromptWhole ==
    ilast.op = "interpret" =>
        /\ Len(ilast.prompts) = 1
        /\ ilast.prompts[1].error_log = ilast.error_log
        /\ ilast.prompts[1].service_name = ilast.service_name
        /\ ilast.outcome = "returned" =>
              LET stored == Interpretation["original_log"]
              IN /\ Interpretation["service_name"] = ilast.service_name
                 /\ Len(stored) =
                       IF Len(ilast.error_log) <= 500
                       THEN Len(ilast.error_log) ELSE 500
                 /\ \A k \in 1..Len(stored) : stored[k] = ilast.error_log[k]
                 /\ ihistory[Len(ihistory)].interpretation = Interpretation

\* a log of 503 characters has been interpreted
C18_Witness ==
    /\ ilast.op = "interpret"
    /\ ilast.outcome = "returned"
    /\ Len(ilast.error_log) = 503
    /\ Len(Interpretation["original_log"]) = 500
    /\ Len(ilast.prompts[1].error_log) = 503
    /\ Interpretation["service_name"] = "user-service"

\* the service names in the history
ServicesSeen == {ihistory[k].service : k \in 1..Len(ihistory)}

\* C19: the history ends with the pair of the service name and the result
\* of the interpret call that has just returned; and the dict
\* get_statistics has just returned has the keys total_interpretations,
\* services_analyzed and unique_services, the first the length of the
\* history, the second listing every service name in the history once, the
\* third their number, for the empty history as for any other.
C19_HistoryAndStatistics ==
    /\ (ilast.op = "interpret" /\ ilast.outcome = "returned") =>
           /\ ihistory # <<>>
           /\ ihistory[Len(ihistory)] =
                 [service |-> ilast.service_name,
                  interpretation |-> ilast.result]
    /\ ilast.op = "get_statistics" =>
           LET statistics == ilast.stats
               listed == statistics.services_analyzed
           IN /\ statistics.keys =
                    {"total_interpretations", "services_analyzed",
                     "unique_services"}
              /\ statistics.total_interpretations = Len(ihistory)
              /\ {listed[k] : k \in 1..Len(listed)} = ServicesSeen
              /\ Len(listed) = Cardinality(ServicesSeen)
              /\ statistics.unique_services = Cardinality(ServicesSeen)

\* the email, the username of the request is that of a stored user
EmailStored == \E k \in 1..Len(users) : users[k].email = ulast'.email
UsernameStored ==
    \E k \in 1..Len(users) : users[k].username = ulast'.username

\* C20: no two stored users have the same email and no two the same
\* username.  A register request that passes validation and whose email or
\* username is stored gets 409 and leaves the users as they were; a request
\* that gets 409 or 422 stores nothing; a request that gets 201 adds one
\* user, with the request's email and username, after the users stored.
C20_UniqueEmailAndUsername ==
    /\ [](\A j, k \in 1..Len(users) :
             (\/ users[j].email = users[k].email
              \/ users[j].username = users[k].username) => j = k)
    /\ [][/\ (ulast'.status # 422 /\ (EmailStored \/ UsernameStored)) =>
                ulast'.status = 409
          /\ ulast'.status \in {409, 422} => users' = users
          /\ ulast'.status = 201 =>
                /\ Len(users') = Len(users) + 1
                /\ SubSeq(users', 1, Len(users)) = users
                /\ users'[Len(users')].email = ulast'.email
                /\ users'[Len(users')].username = ulast'.username]_vars

\* two users are stored and a third request, with a new email and a stored
\* username, has been rejected
C20_Witness ==
    /\ Len(users) = 2
    /\ users[1].email # users[2].email
    /\ users[1].username # users[2].username
    /\ ulast.status = 409
    /\ ulast.detail = "Username already taken"
    /\ \A k \in 1..Len(users) : users[k].email # ulast.email

\* the ids of the stored orders
OrderIdsStored(rows) == {rows[k].id : k \in 1..Len(rows)}

\* C21: a create_order request whose quantity is below 1 or above 1000, or
\* whose unit_price is not greater than 0, gets 422 and leaves the orders
\* as they were; any other create_order request that is answered gets 201
\* and adds one order after those stored, with status pending and an id
\* that no stored order has, which the response carries.
C21_CreateValidatesAndStoresOne ==
    [][olast'.op = "create_order" =>
          LET quantity == olast'.request.quantity
              unit_price == olast'.request.unit_price
              new == orders'[Len(orders')]
          IN IF quantity < 1 \/ quantity > 1000 \/ ~(unit_price > 0)
             THEN /\ olast'.status = 422
                  /\ orders' = orders
             ELSE /\ olast'.status = 201
                  /\ Len(orders') = Len(orders) + 1
                  /\ SubSeq(orders', 1, Len(orders)) = orders
                  /\ new.status = "pending"
                  /\ new.id \notin OrderIdsStored(orders)
                  /\ olast'.body.id = new.id]_vars

\* two orders with different ids are stored, both pending, and a create
\* request for 1001 pieces has then been rejected
C21_Witness ==
    /\ Len(orders) = 2
    /\ orders[1].id # orders[2].id
    /\ \A k \in 1..2 : orders[k].status = "pending"
    /\ olast.op = "create_order"
    /\ olast.status = 422
    /\ olast.request.quantity = 1001
    /\ olast.request.unit_price > 0

\* C22: every stored order has total_price = quantity * unit_price.
C22_TotalPriceIsProduct ==
    \A k \in 1..Len(orders) :
        orders[k].total_price = orders[k].quantity * orders[k].unit_price

\* the first order has been cancelled and an update request has just set
\* the quantity of the second to -1, its total following
C22_Witness ==
    /\ Len(orders) = 2
    /\ orders[1].status = "cancelled"
    /\ olast.op = "update_order"
    /\ olast.status = 200
    /\ olast.order_id = orders[2].id
    /\ orders[2].quantity = -1
    /\ orders[2].total_price = -2999

\* the stored payment with the id of the request being handled
PaymentOf(rows, payment_id) == rows[PaymentIndex(rows, payment_id)]
PaymentStored(rows, payment_id) == PaymentIndex(rows, payment_id) # 0

\* C23: a process_payment request that passes validation first stores one
\* new payment with status processing; the gateway's answer then sets that
\* payment to completed or to failed and changes no other payment.  The
\* answer is 201 exactly when the stored status is completed and 402
\* exactly when it is failed, the answered payment is stored with that
\* status, and a payment is in processing only while its own request is
\* between the two commits.
C23_ProcessingThenFinal ==
    /\ [](/\ \A k \in 1..Len(payments) :
                 payments[k].status = "processing" =>
                     /\ plast.op = "process_payment"
                     /\ plast.pc = "stored"
                     /\ plast.payment_id = payments[k].id
          /\ (plast.op = "process_payment" /\ plast.pc = "stored") =>
                 /\ PaymentStored(payments, plast.payment_id)
                 /\ PaymentOf(payments, plast.payment_id).status =
                        "processing"
          /\ (plast.op = "process_payment" /\ plast.pc = "idle"
                /\ plast.status # 422) =>
                 /\ PaymentStored(payments, plast.payment_id)
                 /\ plast.status \in {201, 402}
                 /\ plast.status = 201 <=>
                        PaymentOf(payments, plast.payment_id).status =
                            "completed"
                 /\ plast.status = 402 <=>
                        PaymentOf(payments, plast.payment_id).status =
                            "failed"
                 /\ plast.body.status =
                        PaymentOf(payments, plast.payment_id).status)
    /\ [][/\ (plast'.op = "process_payment" /\ plast'.pc = "stored") =>
                /\ Len(payments') = Len(payments) + 1
                /\ SubSeq(payments', 1, Len(payments)) = payments
                /\ payments'[Len(payments')].id = plast'.payment_id
                /\ payments'[Len(payments')].status = "processing"
          /\ plast.pc = "stored" =>
                /\ plast'.pc = "idle"
                /\ Len(payments') = Len(payments)
                /\ \A k \in 1..Len(payments) :
                       IF payments[k].id = plast.payment_id
                       THEN payments'[k].status \in {"completed", "failed"}
                       ELSE payments'[k] = payments[k]]_vars

\* a first payment completed, and a second has just been answered 402 and
\* is stored as failed
C23_Witness ==
    /\ Len(payments) = 2
    /\ payments[1].status = "completed"
    /\ plast.op = "process_payment"
    /\ plast.pc = "idle"
    /\ plast.status = 402
    /\ plast.payment_id = payments[2].id
    /\ payments[2].status = "failed"
    /\ payments[2].payment_gateway_response = Some(<<"Card declined">>)

\* C24: a refund_payment request for an id that no stored payment has gets
\* 404 and leaves the payments as they were; for a stored payment that is
\* not completed it gets 400 and leaves the payments as they were; for a
\* completed payment it gets 200 and sets that payment's status to
\* refunded, every other payment staying as it was.  So no request refunds
\* a payment that is refunded already.
C24_RefundOnlyCompleted ==
    [][plast'.op = "refund_payment" =>
          LET payment_id == plast'.payment_id
          IN IF ~(\E k \in 1..Len(payments) : payments[k].id = payment_id)
             THEN /\ plast'.status = 404
                  /\ payments' = payments
             ELSE LET k == CHOOSE j \in 1..Len(payments) :
                               payments[j].id = payment_id
                  IN IF payments[k].status = "completed"
                     THEN /\ plast'.status = 200
                          /\ Len(payments') = Len(payments)
                          /\ payments'[k].status = "refunded"
                          /\ payments'[k].id = payment_id
                          /\ plast'.body.status = "refunded"
                          /\ \A j \in 1..Len(payments) :
                                 j # k => payments'[j] = payments[j]
                     ELSE /\ plast'.status = 400
                          /\ payments' = payments]_vars

\* a payment has been refunded and a second refund request for it has just
\* been answered 400
C24_Witness ==
    /\ plast.op = "refund_payment"
    /\ plast.status = 400
    /\ \E k \in 1..Len(payments) :
           /\ payments[k].id = plast.payment_id
           /\ payments[k].status = "refunded"
           /\ payments[k].payment_gateway_response =
                  Some(<<"Refunded: ", "Customer request">>)

\* the fields of a response body are those of the stored row
OrderBodyOf(body, order) ==
    /\ body.id = order.id
    /\ body.user_id = order.user_id
    /\ body.product_name = order.product_name
    /\ body.quantity = order.quantity
    /\ body.unit_price = order.unit_price
    /\ body.total_price = order.total_price
    /\ body.status = order.status
    /\ body.shipping_address = order.shipping_address
    /\ body.created_at = order.created_at
PaymentBodyOf(body, payment) ==
    /\ body.id = payment.id
    /\ body.order_id = payment.order_id
    /\ body.user_id = payment.user_id
    /\ body.amount = payment.amount
    /\ body.payment_method = payment.payment_method
    /\ body.status = payment.status
    /\ body.transaction_id = payment.transaction_id
    /\ body.card_last_four = payment.card_last_four
    /\ body.created_at = payment.created_at

\* C25: a get_order request gets 404 exactly when no stored order has the
\* requested id, and otherwise 200 with the fields of the stored order
\* that has this id; get_payment likewise on the payments; neither changes
\* the stored rows.  The id that a create_order answered 201 or a
\* process_payment request returns is stored, and a stored id stays
\* stored.
C25_GetReturnsStoredRecord ==
    [][/\ olast'.op = "get_order" =>
             /\ orders' = orders
             /\ olast'.status \in {200, 404}
             /\ olast'.status = 404 <=>
                    \A k \in 1..Len(orders) :
                        orders[k].id # olast'.order_id
             /\ olast'.status = 200 =>
                    /\ olast'.body.id = olast'.order_id
                    /\ \E k \in 1..Len(orders) :
                           OrderBodyOf(olast'.body, orders[k])
       /\ plast'.op = "get_payment" =>
             /\ payments' = payments
             /\ plast'.status \in {200, 404}
             /\ plast'.status = 404 <=>
                    \A k \in 1..Len(payments) :
                        payments[k].id # plast'.payment_id
             /\ plast'.status = 200 =>
                    /\ plast'.body.id = plast'.payment_id
                    /\ \E k \in 1..Len(payments) :
                           PaymentBodyOf(plast'.body, payments[k])
       /\ (olast'.op = "create_order" /\ olast'.status = 201) =>
              olast'.body.id \in OrderIdsStored(orders')
       /\ (plast'.op = "process_payment" /\ plast'.status \in {201, 402}) =>
              plast'.body.id \in {payments'[k].id : k \in 1..Len(payments')}
       /\ OrderIdsStored(orders) \subseteq OrderIdsStored(orders')
       /\ {payments[k].id : k \in 1..Len(payments)}
              \subseteq {payments'[k].id : k \in 1..Len(payments')}]_vars

\* the second of two orders, cancelled since it was created, has just been
\* read, and so has a payment that was refunded
C25_Witness ==
    /\ Len(orders) = 2
    /\ olast.op = "get_order"
    /\ olast.status = 200
    /\ olast.order_id = orders[2].id
    /\ olast.body.status = "cancelled"
    /\ Len(payments) = 1
    /\ plast.op = "get_payment"
    /\ plast.status = 200
    /\ plast.body.status = "refunded"

\* C26: every stored order has a quantity from 1 to 1000.
C26_QuantityInRange ==
    \A k \in 1..Len(orders) :
        orders[k].quantity >= 1 /\ orders[k].quantity <= 1000

\* the status changes a stored payment may make
PaymentTransitions ==
    {<<"processing", "completed">>, <<"processing", "failed">>,
     <<"completed", "refunded">>}

\* C27: no stored payment has status pending or cancelled, and the status
\* of a stored payment either stays as it is or changes from processing to
\* completed, from processing to failed or from completed to refunded; so
\* a failed or refunded payment keeps its status.
C27_StatusTransitions ==
    /\ [](\A k \in 1..Len(payments) :
             payments[k].status \notin {"pending", "cancelled"})
    /\ [][/\ Len(payments') >= Len(payments)
          /\ \A k \in 1..Len(payments) :
                 /\ payments'[k].id = payments[k].id
                 /\ \/ payments'[k].status = payments[k].status
                    \/ <<payments[k].status, payments'[k].status>>
                           \in PaymentTransitions]_vars

\* one payment was completed and then refunded, another failed, and a
\* refund request for the failed one has just been answered 400
C27_Witness ==
    /\ Len(payments) = 2
    /\ payments[1].status = "refunded"
    /\ payments[2].status = "failed"
    /\ plast.op = "refund_payment"
    /\ plast.payment_id = payments[2].id
    /\ plast.status = 400

\* the index of the stored order that a request names, 0 when there is none
Named(rows, order_id) ==
    IF \E k \in 1..Len(rows) : rows[k].id = order_id
    THEN CHOOSE k \in 1..Len(rows) : rows[k].id = order_id
    ELSE 0

\* C28 as stated: a cancel_order request for a stored order sets its status
\* to cancelled and leaves every other field of it and every other order
\* as it was, so that a second cancel request changes nothing; for an id
\* that no stored order has it gets 404 and leaves the orders as they were.
C28_CancelChangesOnlyStatus ==
    [][olast'.op = "cancel_order" =>
          LET k == Named(orders, olast'.order_id)
          IN IF k = 0
             THEN /\ olast'.status = 404
                  /\ orders' = orders
             ELSE /\ olast'.status = 204
                  /\ orders' = [orders EXCEPT ![k].status = "cancelled"]]_vars

\* C28 as amended: a cancel_order request for a stored order sets its
\* status to cancelled and leaves every other field of it except
\* updated_at, and every other order, as it was; when the order is
\* cancelled already the request changes nothing, updated_at included; for
\* an id that no stored order has it gets 404 and leaves the orders as they
\* were.
C28_CancelKeepsOtherFields ==
    [][olast'.op = "cancel_order" =>
          LET k == Named(orders, olast'.order_id)
          IN IF k = 0
             THEN /\ olast'.status = 404
                  /\ orders' = orders
             ELSE /\ olast'.status = 204
                  /\ Len(orders') = Len(orders)
                  /\ orders' =
                         [orders EXCEPT
                             ![k].status = "cancelled",
                             ![k].updated_at = orders'[k].updated_at]
                  /\ orders[k].status = "cancelled" => orders' = orders]_vars

\* an order created at reading 0 has just been cancelled at reading 1, and
\* the other order was cancelled at the reading it was created at
C28_Witness ==
    /\ Len(orders) = 2
    /\ olast.op = "cancel_order"
    /\ olast.status = 204
    /\ olast.order_id = orders[2].id
    /\ orders[2].status = "cancelled"
    /\ orders[2].created_at = 0
    /\ orders[2].updated_at = 1
    /\ orders[1].status = "cancelled"
    /\ orders[1].updated_at = orders[1].created_at

\* whether processing record k of a batch raises: the record lacks
\* error_message or endpoint, or the model call made for it fails, or
\* classify raises on the model's answer
RecordRaises(bugs, answers, k) ==
    \/ ~({"error_message", "endpoint"} \subseteq bugs[k].keys)
    \/ /\ k <= Len(answers)
       /\ \/ answers[k].raises
          \/ ~ParseClassification(answers[k].response).ok
          \/ ClampRaises(ParseClassification(answers[k].response).d)

\* C29: when a classify_batch call ends with an exception, k being the
\* record after those it made results for, processing record k raises, the
\* call returns no result list, the model has received prompts for no
\* record after the k-th, and the history of the instance is what it was
\* followed by k-1 entries, the j-th pairing the j-th record's endpoint
\* with the classification of the model's j-th answer.
C29_BatchNotAtomic ==
    [][(batch'.inst # 0 /\ batch'.outcome # "returned") =>
          LET bugs == batch'.bugs
              answers == batch'.answers
              i == batch'.inst
              k == batch'.done + 1
          IN /\ k <= Len(bugs)
             /\ RecordRaises(bugs, answers, k)
             /\ batch'.results = <<>>
             /\ Len(prompts') \in {k - 1, k}
             /\ \A j \in 1..Len(prompts') : prompts'[j] = PromptOf(bugs[j])
             /\ Len(history'[i]) = Len(history[i]) + k - 1
             /\ SubSeq(history'[i], 1, Len(history[i])) = history[i]
             /\ \A j \in 1..(k - 1) :
                    history'[i][Len(history[i]) + j] =
                        [endpoint |-> bugs[j].endpoint,
                         classification |->
                             ClassificationOf(answers[j].response)]
             /\ \A j \in Instances \ {i} : history'[j] = history[j]]_vars

\* a batch of two records has ended with the model's error on the second,
\* the first record's entry staying in the history
C29_Witness ==
    /\ batch.inst # 0
    /\ Len(batch.bugs) = 2
    /\ batch.outcome = "ModelError"
    /\ batch.results = <<>>
    /\ Len(prompts) = 2
    /\ Len(history[batch.inst]) = 1
    /\ history[batch.inst][1]["endpoint"] = batch.bugs[1].endpoint

\* the position in mcalls of the start_timer call that appended entry k
RECURSIVE StartCall(_, _, _)
StartCall(log, k, p) ==
    IF p > Len(log) THEN 0
    ELSE IF log[p] = "start_timer"
         THEN IF k = 1 THEN p ELSE StartCall(log, k - 1, p + 1)
         ELSE StartCall(log, k, p + 1)

\* the number of start_timer calls among the calls made
Starts(log) == Cardinality({p \in 1..Len(log) : log[p] = "start_timer"})

\* C30: a stop_timer call right after a stop_timer call, or before any
\* start_timer call, returns 0.0; after a stop_timer call no timer is
\* running; the timestamps hold one entry for every start_timer call made;
\* and every entry whose start_timer call has been followed by a
\* stop_timer call has a duration.
C30_StoppedEntriesHaveDuration ==
    /\ (mlast.op = "stop_timer"
          /\ (Len(mcalls) = 1 \/ mcalls[Len(mcalls) - 1] = "stop_timer")) =>
           mlast.result = Some(0)
    /\ mlast.op = "stop_timer" => start_time = None
    /\ Len(timestamps) = Starts(mcalls)
    /\ \A k \in 1..Len(timestamps) :
           (\E q \in (StartCall(mcalls, k, 1) + 1)..Len(mcalls) :
                mcalls[q] = "stop_timer")
               => "duration" \in DOMAIN timestamps[k]

====
